---- MODULE Spec2Model ----
(***************************************************************************)
(* Model of the technical-analysis engine of src/src/utils/crypto.ts.      *)
(*                                                                         *)
(* The engine is a library of functions over a candle series.  Each        *)
(* function of the source is an operator of this module, translated        *)
(* statement by statement; each call of a function is an action that       *)
(* records the function called (op), its scalar arguments (arg) and what   *)
(* it returned or threw (res).  The series itself (data) is held by the    *)
(* caller, who passes it to the functions.  A specification of the calls   *)
(* of some functions starts from any series of a bounded family; the       *)
(* series changes where a function mutates it, and in SpecFetch, where     *)
(* fetchCandleData brings a new one in the steps its awaits divide it      *)
(* into (fetches) and the page's query (query) holds it under the symbol   *)
(* and timeframe it was fetched for.  given is a history variable: the     *)
(* series as the caller built it.                                          *)
(*                                                                         *)
(* Numbers.  JavaScript numbers are modelled as exact rationals            *)
(* [n |-> numerator, d |-> denominator > 0] in lowest terms; square roots  *)
(* are kept symbolic.  What the program decides on a computed number it    *)
(* decides on the double it holds: those decisions are taken in the        *)
(* binary64 arithmetic of this module, and a number whose double the       *)
(* roundings left off the nearest double carries the side it lies on.      *)
(* A thrown TypeError (a property read on undefined) is the result         *)
(* [kind |-> "throw"].                                                     *)
(***************************************************************************)
EXTENDS Integers, Sequences, FiniteSets, TLC

VARIABLES data, dataAbsent, fetches, query, given, op, arg, res,
          isInitialized, lastSentiment, lastConfidence,
          lastSupportLevels, lastResistanceLevels

\* The fields of the AdvancedAnalysis object the caller holds.
analysisVars == <<isInitialized, lastSentiment, lastConfidence,
                  lastSupportLevels, lastResistanceLevels>>

vars == <<data, dataAbsent, fetches, query, given, op, arg, res, analysisVars>>

\* ------------------------------------------------------------------ bounds

\* Longest series of Spec.
MaxLen == 3

\* --------------------------------------------------------------- rationals

Abs(x) == IF x < 0 THEN -x ELSE x

Min2(a, b) == IF a < b THEN a ELSE b

Max2(a, b) == IF a > b THEN a ELSE b

RECURSIVE GCD(_, _)
GCD(a, b) == IF b = 0 THEN a ELSE GCD(b, a % b)

\* The rational n/d (d # 0) in lowest terms with a positive denominator.
Rat(n, d) ==
  LET g == GCD(Abs(n), Abs(d))
      s == IF d < 0 THEN -1 ELSE 1
  IN [n |-> (s * n) \div g, d |-> (s * d) \div g]

R(i) == [n |-> i, d |-> 1]

RAdd(x, y) ==
  LET g == GCD(x.d, y.d)
      l == (x.d \div g) * y.d
  IN Rat(x.n * (l \div x.d) + y.n * (l \div y.d), l)

RNeg(x) == [n |-> -x.n, d |-> x.d]

RSub(x, y) == RAdd(x, RNeg(y))

RMul(x, y) ==
  LET g1 == GCD(Abs(x.n), y.d)
      g2 == GCD(Abs(y.n), x.d)
  IN Rat((x.n \div g1) * (y.n \div g2), (x.d \div g2) * (y.d \div g1))

\* x / y for y # 0 (every division by a possibly zero value is guarded by
\* the caller, as the source's are, or modelled apart).
RDiv(x, y) == RMul(x, Rat(y.d, y.n))

RAbs(x) == [n |-> Abs(x.n), d |-> x.d]

\* a/b < c/d for a, c >= 0 and b, d > 0, by continued fractions (no products).
RECURSIVE FracLt(_, _, _, _)
FracLt(a, b, c, d) ==
  LET q1 == a \div b
      q2 == c \div d
      r1 == a % b
      r2 == c % d
  IN IF q1 # q2 THEN q1 < q2
     ELSE IF r2 = 0 THEN FALSE
     ELSE IF r1 = 0 THEN TRUE
     ELSE FracLt(d, r2, b, r1)

RLt(x, y) ==
  IF x.n < 0 /\ y.n >= 0 THEN TRUE
  ELSE IF x.n >= 0 /\ y.n < 0 THEN FALSE
  ELSE IF x.n >= 0 THEN FracLt(x.n, x.d, y.n, y.d)
  ELSE FracLt(-y.n, y.d, -x.n, x.d)

RGt(x, y) == RLt(y, x)

RLe(x, y) == ~RLt(y, x)

\* The numbers that are not finite: n/0 is Infinity for n > 0, -Infinity
\* for n < 0, and 0/0 is NaN.
Infinity == [n |-> 1, d |-> 0]

RNaN == [n |-> 0, d |-> 0]

Sign(i) == IF i > 0 THEN 1 ELSE IF i < 0 THEN -1 ELSE 0

\* x + y of numbers: Infinity + -Infinity is NaN.
NumAdd(x, y) ==
  IF x.d # 0 /\ y.d # 0 THEN RAdd(x, y)
  ELSE IF x = RNaN \/ y = RNaN THEN RNaN
  ELSE IF x.d # 0 THEN y
  ELSE IF y.d # 0 THEN x
  ELSE IF x = y THEN x
  ELSE RNaN

NumNeg(x) == [n |-> -x.n, d |-> x.d]

NumSub(x, y) == NumAdd(x, NumNeg(y))

\* x * y of numbers: 0 * Infinity is NaN.
NumMul(x, y) ==
  IF x.d # 0 /\ y.d # 0 THEN RMul(x, y)
  ELSE IF x = RNaN \/ y = RNaN \/ x.n = 0 \/ y.n = 0 THEN RNaN
  ELSE [n |-> Sign(x.n) * Sign(y.n), d |-> 0]

\* x / y of numbers, the zero divisor being +0: x / 0 is Infinity, -Infinity
\* or NaN by the sign of x, Infinity / Infinity is NaN, x / Infinity is 0.
NumDiv(x, y) ==
  IF x = RNaN \/ y = RNaN THEN RNaN
  ELSE IF y.d = 0 THEN (IF x.d = 0 THEN RNaN ELSE R(0))
  ELSE IF y.n = 0 THEN [n |-> Sign(x.n), d |-> 0]
  ELSE IF x.d = 0 THEN [n |-> Sign(x.n) * Sign(y.n), d |-> 0]
  ELSE RDiv(x, y)

\* x === y of numbers: NaN equals nothing.
NumEq(x, y) == x # RNaN /\ x = y

\* TRUE, once x has been computed: the turns of a loop run one after the
\* other, each on what the turns before it left.
Computed(x) == Len(<<x>>) = 1

\* Folds over s[lo..hi], split in halves so that a long series does not
\* nest deeply.
RECURSIVE RSumRange(_, _, _)
RSumRange(s, lo, hi) ==
  IF lo > hi THEN R(0)
  ELSE IF lo = hi THEN s[lo]
  ELSE LET mid == (lo + hi) \div 2
       IN RAdd(RSumRange(s, lo, mid), RSumRange(s, mid + 1, hi))

\* reduce((sum, x) => sum + x, 0) over rationals.
RSum(s) == RSumRange(s, 1, Len(s))

RECURSIVE ISumRange(_, _, _)
ISumRange(s, lo, hi) ==
  IF lo > hi THEN 0
  ELSE IF lo = hi THEN s[lo]
  ELSE LET mid == (lo + hi) \div 2
       IN ISumRange(s, lo, mid) + ISumRange(s, mid + 1, hi)

\* reduce((sum, x) => sum + x, 0) over integers.
ISum(s) == ISumRange(s, 1, Len(s))

RECURSIVE IMaxRange(_, _, _)
IMaxRange(s, lo, hi) ==
  IF lo = hi THEN s[lo]
  ELSE LET mid == (lo + hi) \div 2
       IN Max2(IMaxRange(s, lo, mid), IMaxRange(s, mid + 1, hi))

\* Math.max(...s) of a non-empty list.
IMax(s) == IMaxRange(s, 1, Len(s))

RECURSIVE IMinRange(_, _, _)
IMinRange(s, lo, hi) ==
  IF lo = hi THEN s[lo]
  ELSE LET mid == (lo + hi) \div 2
       IN Min2(IMinRange(s, lo, mid), IMinRange(s, mid + 1, hi))

\* Math.min(...s) of a non-empty list.
IMin(s) == IMinRange(s, 1, Len(s))

RECURSIVE FlattenRange(_, _, _)
FlattenRange(ss, lo, hi) ==
  IF lo > hi THEN <<>>
  ELSE IF lo = hi THEN ss[lo]
  ELSE LET mid == (lo + hi) \div 2
       IN FlattenRange(ss, lo, mid) \o FlattenRange(ss, mid + 1, hi)

\* The lists of ss one after another.
Flatten(ss) == FlattenRange(ss, 1, Len(ss))

\* ---------------------------------------------------------------- binary64
\* The numbers of the program are IEEE 754 doubles. A double is held here as
\* sign * m * 2^e, with the 53-bit m in limbs of 15 bits, lowest first, so
\* that a test the program makes at the edge of a rounding error is decided
\* as the program decides it.

LimbBase == 2^15

Limb(a, i) == IF i <= Len(a) THEN a[i] ELSE 0

\* A natural number in limbs; 0 is the empty sequence.
RECURSIVE BigOf(_)
BigOf(i) == IF i = 0 THEN <<>> ELSE <<i % LimbBase>> \o BigOf(i \div LimbBase)

RECURSIVE BigToInt(_)
BigToInt(a) ==
  IF a = <<>> THEN 0 ELSE a[1] + LimbBase * BigToInt(SubSeq(a, 2, Len(a)))

RECURSIVE BigTrim(_)
BigTrim(a) ==
  IF Len(a) > 0 /\ a[Len(a)] = 0 THEN BigTrim(SubSeq(a, 1, Len(a) - 1)) ELSE a

\* -1, 0 or 1 as a is below, equal to or above b.
BigCmp(a, b) ==
  IF Len(a) # Len(b) THEN (IF Len(a) < Len(b) THEN -1 ELSE 1)
  ELSE IF a = b THEN 0
  ELSE LET i == CHOOSE k \in 1..Len(a) :
                  a[k] # b[k] /\ \A j \in (k + 1)..Len(a) : a[j] = b[j]
       IN IF a[i] < b[i] THEN -1 ELSE 1

RECURSIVE BigAddFrom(_, _, _, _)
BigAddFrom(a, b, i, carry) ==
  IF i > Len(a) /\ i > Len(b) THEN (IF carry = 0 THEN <<>> ELSE <<carry>>)
  ELSE <<(Limb(a, i) + Limb(b, i) + carry) % LimbBase>>
       \o BigAddFrom(a, b, i + 1, (Limb(a, i) + Limb(b, i) + carry) \div LimbBase)

BigAdd(a, b) == BigAddFrom(a, b, 1, 0)

\* a - b for a >= b.
RECURSIVE BigSubFrom(_, _, _, _)
BigSubFrom(a, b, i, borrow) ==
  IF i > Len(a) THEN <<>>
  ELSE <<(a[i] - Limb(b, i) - borrow) % LimbBase>>
       \o BigSubFrom(a, b, i + 1, IF a[i] - Limb(b, i) - borrow < 0 THEN 1 ELSE 0)

BigSub(a, b) == BigTrim(BigSubFrom(a, b, 1, 0))

\* a * k for 0 <= k < LimbBase.
RECURSIVE BigScaleFrom(_, _, _, _)
BigScaleFrom(a, k, i, carry) ==
  IF i > Len(a) THEN BigOf(carry)
  ELSE <<(a[i] * k + carry) % LimbBase>>
       \o BigScaleFrom(a, k, i + 1, (a[i] * k + carry) \div LimbBase)

BigScale(a, k) == BigTrim(BigScaleFrom(a, k, 1, 0))

\* a * LimbBase^n
BigShiftLimbs(a, n) == IF a = <<>> THEN <<>> ELSE [j \in 1..n |-> 0] \o a

RECURSIVE BigMulFrom(_, _, _)
BigMulFrom(a, b, i) ==
  IF i > Len(a) THEN <<>>
  ELSE BigAdd(BigShiftLimbs(BigScale(b, a[i]), i - 1), BigMulFrom(a, b, i + 1))

BigMul(a, b) == BigMulFrom(a, b, 1)

\* a * 2^k
BigShl(a, k) == BigShiftLimbs(BigScale(a, 2^(k % 15)), k \div 15)

\* The whole part of a / 2^k.
BigShr(a, k) ==
  LET t == SubSeq(a, (k \div 15) + 1, Len(a))
      r == k % 15
  IN BigTrim([i \in 1..Len(t) |->
                (t[i] \div 2^r) + (Limb(t, i + 1) % 2^r) * 2^(15 - r)])

\* The number of bits of a.
BigBitLen(a) ==
  IF a = <<>> THEN 0
  ELSE (Len(a) - 1) * 15
       + (CHOOSE k \in 1..15 : 2^(k - 1) <= a[Len(a)] /\ a[Len(a)] < 2^k)

F64(sign, m, e) == [kind |-> "num", sign |-> sign, m |-> m, e |-> e]

F64Zero == F64(1, <<>>, 0)

F64NaN == [kind |-> "nan", sign |-> 1, m |-> <<>>, e |-> 0]

F64Infinity(sign) == [kind |-> "inf", sign |-> sign, m |-> <<>>, e |-> 0]

\* The double nearest to sign * big * 2^e, ties to the even mantissa; sticky
\* says that the exact value lies a little above big * 2^e.
F64Round(sign, big, e, sticky) ==
  IF big = <<>> THEN F64Zero
  ELSE IF BigBitLen(big) <= 53
  THEN F64(sign, BigShl(big, 53 - BigBitLen(big)), e - (53 - BigBitLen(big)))
  ELSE LET s == BigBitLen(big) - 53
           carried(q1) ==
             IF BigBitLen(q1) > 53 THEN F64(sign, BigShr(q1, 1), e + s + 1)
             ELSE F64(sign, q1, e + s)
           nearest(q, c) ==
             IF c > 0 \/ (c = 0 /\ (sticky \/ q[1] % 2 = 1))
             THEN carried(BigAdd(q, <<1>>))
             ELSE carried(q)
           cut(q) ==
             nearest(q, BigCmp(BigSub(big, BigShl(q, s)), BigShl(<<1>>, s - 1)))
       IN cut(BigShr(big, s))

F64OfInt(i) ==
  IF i = 0 THEN F64Zero
  ELSE F64Round(IF i < 0 THEN -1 ELSE 1, BigOf(Abs(i)), 0, FALSE)

F64Neg(x) == [x EXCEPT !.sign = -x.sign]

\* -1, 0 or 1 as the double x is below, equal to or above y; neither is NaN.
F64Cmp(x, y) ==
  IF x.kind = "inf" THEN (IF y.kind = "inf" /\ y.sign = x.sign THEN 0 ELSE x.sign)
  ELSE IF y.kind = "inf" THEN -y.sign
  ELSE IF x.m = <<>> THEN (IF y.m = <<>> THEN 0 ELSE -y.sign)
  ELSE IF y.m = <<>> \/ x.sign # y.sign THEN x.sign
  ELSE IF x.e # y.e THEN (IF x.e > y.e THEN x.sign ELSE -x.sign)
  ELSE x.sign * BigCmp(x.m, y.m)

F64Lt(x, y) == x.kind # "nan" /\ y.kind # "nan" /\ F64Cmp(x, y) < 0

F64Gt(x, y) == x.kind # "nan" /\ y.kind # "nan" /\ F64Cmp(x, y) > 0

\* x + y rounded. A sum of zeros is -0 only when both are -0, and a sum of
\* opposite numbers is +0.
F64Add(x, y) ==
  IF x.kind = "nan" \/ y.kind = "nan" THEN F64NaN
  ELSE IF x.kind = "inf"
  THEN (IF y.kind = "inf" /\ y.sign # x.sign THEN F64NaN ELSE x)
  ELSE IF y.kind = "inf" THEN y
  ELSE IF x.m = <<>> /\ y.m = <<>>
  THEN F64(IF x.sign < 0 /\ y.sign < 0 THEN -1 ELSE 1, <<>>, 0)
  ELSE IF x.m = <<>> THEN y
  ELSE IF y.m = <<>> THEN x
  ELSE LET hi == IF x.e >= y.e THEN x ELSE y
           lo == IF x.e >= y.e THEN y ELSE x
           d == hi.e - lo.e
       IN IF d > 64
          THEN F64Round(hi.sign,
                        IF hi.sign = lo.sign THEN BigAdd(BigShl(hi.m, 3), <<1>>)
                        ELSE BigSub(BigShl(hi.m, 3), <<1>>),
                        hi.e - 3, TRUE)
          ELSE IF hi.sign = lo.sign
          THEN F64Round(hi.sign, BigAdd(BigShl(hi.m, d), lo.m), lo.e, FALSE)
          ELSE IF BigCmp(BigShl(hi.m, d), lo.m) = 0 THEN F64Zero
          ELSE IF BigCmp(BigShl(hi.m, d), lo.m) > 0
          THEN F64Round(hi.sign, BigSub(BigShl(hi.m, d), lo.m), lo.e, FALSE)
          ELSE F64Round(lo.sign, BigSub(lo.m, BigShl(hi.m, d)), lo.e, FALSE)

F64Sub(x, y) == F64Add(x, F64Neg(y))

F64Mul(x, y) ==
  IF x.kind = "nan" \/ y.kind = "nan" THEN F64NaN
  ELSE IF x.kind = "inf" \/ y.kind = "inf"
  THEN (IF (x.kind = "num" /\ x.m = <<>>) \/ (y.kind = "num" /\ y.m = <<>>)
        THEN F64NaN ELSE F64Infinity(x.sign * y.sign))
  ELSE IF x.m = <<>> \/ y.m = <<>> THEN F64(x.sign * y.sign, <<>>, 0)
  ELSE F64Round(x.sign * y.sign, BigMul(x.m, y.m), x.e + y.e, FALSE)

\* The largest digit t <= guess with v * t <= rem.
RECURSIVE BigDigit(_, _, _)
BigDigit(rem, v, guess) ==
  IF BigCmp(BigScale(v, guess), rem) > 0 THEN BigDigit(rem, v, guess - 1)
  ELSE guess

\* Long division of u by v from limb i of u down, for a v whose highest limb
\* has its highest bit set: the whole part q of u / v and what is left of u.
\* Each digit is guessed from the two highest limbs of what remains and the
\* highest limb of v, which is at most 2 too much.
RECURSIVE BigDivFrom(_, _, _, _, _)
BigDivFrom(u, v, i, rem, q) ==
  IF i = 0 \/ ~Computed(rem) \/ ~Computed(q)
  THEN [q |-> BigTrim(q), left |-> rem]
  ELSE LET take(cur, digit) ==
             BigDivFrom(u, v, i - 1, BigSub(cur, BigScale(v, digit)),
                        <<digit>> \o q)
           digit(cur) ==
             BigDigit(cur, v,
                      Min2(LimbBase - 1,
                           (Limb(cur, Len(v) + 1) * LimbBase
                            + Limb(cur, Len(v))) \div v[Len(v)]))
       IN take(BigTrim(<<u[i]>> \o rem), digit(BigTrim(<<u[i]>> \o rem)))

\* The whole part of (m * 2^k) / d with what is left, for d > 0.
BigDivShifted(m, k, d) ==
  LET divide(u, v) == BigDivFrom(u, v, Len(u), <<>>, <<>>)
  IN divide(BigShl(m, k + 15 * Len(d) - BigBitLen(d)),
            BigShl(d, 15 * Len(d) - BigBitLen(d)))

\* x / y for finite x and y other than 0: 54 bits or more of the quotient
\* and whether anything is left, rounded. A divisor of at most 15 significant
\* bits, as every whole number of the size of a price or a period has, is
\* divided by as one limb.
F64DivFinite(x, y) ==
  LET rounded(bits, e) == F64Round(x.sign * y.sign, bits.q, e, bits.left # <<>>)
  IN IF BigShl(BigShr(y.m, 38), 38) = y.m
     THEN rounded(BigDivShifted(x.m, 16, BigShr(y.m, 38)), x.e - y.e - 54)
     ELSE rounded(BigDivShifted(x.m, 56, y.m), x.e - y.e - 56)

F64Div(x, y) ==
  IF x.kind = "nan" \/ y.kind = "nan" THEN F64NaN
  ELSE IF x.kind = "inf"
  THEN (IF y.kind = "inf" THEN F64NaN ELSE F64Infinity(x.sign * y.sign))
  ELSE IF y.kind = "inf" THEN F64(x.sign * y.sign, <<>>, 0)
  ELSE IF y.m = <<>>
  THEN (IF x.m = <<>> THEN F64NaN ELSE F64Infinity(x.sign * y.sign))
  ELSE IF x.m = <<>> THEN F64(x.sign * y.sign, <<>>, 0)
  ELSE F64DivFinite(x, y)

\* The whole part of the square root of n, by Newton's steps down from a
\* root that is too large: the first step that does not go down has it.
RECURSIVE F64SqrtFrom(_, _)
F64SqrtFrom(n, root) ==
  LET step(next) ==
        IF BigCmp(next, root) >= 0 THEN root ELSE F64SqrtFrom(n, next)
  IN step(BigShr(BigAdd(root, BigDivShifted(n, 0, root).q), 1))

F64Sqrt(x) ==
  IF x.kind = "nan" THEN F64NaN
  ELSE IF x.kind = "num" /\ x.m = <<>> THEN x
  ELSE IF x.sign < 0 THEN F64NaN
  ELSE IF x.kind = "inf" THEN x
  ELSE LET odd == x.e % 2 = 1
           e == IF odd THEN x.e - 57 ELSE x.e - 56
           rounded(n, root) ==
             F64Round(1, root, e \div 2, BigCmp(BigMul(root, root), n) # 0)
           rootOf(n) ==
             rounded(n, F64SqrtFrom(n, BigShl(<<1>>, (BigBitLen(n) + 1) \div 2)))
       IN rootOf(BigShl(x.m, IF odd THEN 57 ELSE 56))

\* Math.floor of a finite double of a size below 2^31.
F64Floor(x) ==
  IF x.m = <<>> THEN 0
  ELSE IF x.e >= 0 THEN x.sign * BigToInt(BigShl(x.m, x.e))
  ELSE LET floor(whole) ==
             IF x.sign > 0 \/ BigShl(whole, -x.e) = x.m
             THEN x.sign * BigToInt(whole)
             ELSE -BigToInt(whole) - 1
       IN floor(BigShr(x.m, -x.e))

\* The double nearest to a rational of whole numbers: one division.
F64OfRat(x) == F64Div(F64OfInt(x.n), F64OfInt(x.d))

\* values.reduce((sum, value) => sum + value, sum) over the doubles i..hi,
\* left to right.
RECURSIVE sumOfDoubles(_, _, _, _)
sumOfDoubles(values, i, hi, sum) ==
  IF i > hi THEN sum
  ELSE IF hi - i >= 8
  THEN LET rest(half) ==
             IF Computed(half)
             THEN sumOfDoubles(values, i + (hi - i) \div 2 + 1, hi, half)
             ELSE half
       IN rest(sumOfDoubles(values, i, i + (hi - i) \div 2, sum))
  ELSE LET rest(next) ==
             IF Computed(next) THEN sumOfDoubles(values, i + 1, hi, next)
             ELSE next
       IN rest(F64Add(sum, values[i]))

\* values.reduce((sum, value) => sum + Math.pow(value - mean, 2), sum) over
\* the doubles i..hi, left to right.
RECURSIVE squaredDeviationsOfDoubles(_, _, _, _, _)
squaredDeviationsOfDoubles(values, mean, i, hi, sum) ==
  IF i > hi THEN sum
  ELSE IF hi - i >= 8
  THEN LET rest(half) ==
             IF Computed(half)
             THEN squaredDeviationsOfDoubles(values, mean,
                                             i + (hi - i) \div 2 + 1, hi, half)
             ELSE half
       IN rest(squaredDeviationsOfDoubles(values, mean, i,
                                          i + (hi - i) \div 2, sum))
  ELSE LET rest(next) ==
             IF Computed(next)
             THEN squaredDeviationsOfDoubles(values, mean, i + 1, hi, next)
             ELSE next
       IN rest(F64Add(sum, F64Mul(F64Sub(values[i], mean),
                                  F64Sub(values[i], mean))))

\* The rational x that the program holds as the double f. The double is
\* kept with the number, as f64, where the roundings of the steps that
\* computed it left it off the double nearest to x.
RRounded(x, f) ==
  LET held(tilt) ==
        IF tilt = 0 THEN x ELSE [n |-> x.n, d |-> x.d, f64 |-> f, tilt |-> tilt]
  IN IF f.kind # "num" THEN x ELSE held(F64Cmp(f, F64OfRat(x)))

\* The side of the double nearest to x on which the double held for x lies:
\* -1 below, 0 on it, 1 above.
RTilt(x) == IF "tilt" \in DOMAIN x THEN x.tilt ELSE 0

\* x < y as the program finds it: numbers that are equal compare as the
\* doubles held for them.
RoundedLt(x, y) ==
  IF x.n = y.n /\ x.d = y.d
  THEN /\ x.d # 0
       /\ \/ RTilt(x) < RTilt(y)
          \/ RTilt(x) = RTilt(y) /\ RTilt(x) # 0 /\ F64Cmp(x.f64, y.f64) < 0
  ELSE RLt(x, y)

RoundedGt(x, y) == RoundedLt(y, x)

\* ------------------------------------------------------------ JS plumbing

\* Array.prototype.slice(b): b < 0 counts from the end; slice(-0) is slice(0).
slice(s, b) ==
  LET start == IF b < 0 THEN Max2(Len(s) + b, 0) ELSE Min2(b, Len(s))
  IN SubSeq(s, start + 1, Len(s))

closes(s) == [i \in 1..Len(s) |-> s[i].close]

highs(s) == [i \in 1..Len(s) |-> s[i].high]

lows(s) == [i \in 1..Len(s) |-> s[i].low]

Ok(v) == [kind |-> "value", value |-> v]

\* Reading a property of undefined (data[0].close on an empty array).
TypeError == [kind |-> "throw", value |-> "TypeError"]

\* ------------------------------------------------------- AdvancedAnalysis

\* Math.abs(price - clusterPrice) / clusterPrice < tolerance, tolerance 0.005.
withinTolerance(price, clusterPrice) ==
  RLt(Rat(Abs(price - clusterPrice), clusterPrice), Rat(5, 1000))

\* One turn of prices.forEach: every existing cluster within tolerance of
\* the price is incremented; if there is none, the price becomes a cluster.
\* clusters maps each key (a cluster price) to its count.
addPrice(clusters, price) ==
  LET hit == {c \in DOMAIN clusters : withinTolerance(price, c)}
  IN IF hit # {}
     THEN [c \in hit |-> clusters[c] + 1] @@ clusters
     ELSE (price :> 1) @@ clusters

\* The clusters object after the turns of prices.forEach for prices[lo..hi],
\* in order, starting from clusters.
RECURSIVE forEachPrice(_, _, _, _)
forEachPrice(clusters, prices, lo, hi) ==
  IF lo > hi THEN clusters
  ELSE IF lo = hi THEN addPrice(clusters, prices[lo])
  ELSE LET half == forEachPrice(clusters, prices, lo, (lo + hi) \div 2)
       IN IF Computed(half) THEN forEachPrice(half, prices, (lo + hi) \div 2 + 1, hi) ELSE half

\* The clusters object after the first n prices.
priceClusters(prices, n) == forEachPrice([c \in {} |-> 0], prices, 1, n)

\* The keys of s in ascending order: the order Object.entries lists the
\* integer keys of an object in.
RECURSIVE Ascending(_)
Ascending(s) ==
  IF s = {} THEN <<>>
  ELSE LET least == CHOOSE x \in s : \A y \in s : x <= y
       IN <<least>> \o Ascending(s \ {least})

\* For positive integer prices.
findPriceClusters(prices) ==
  LET clusters == priceClusters(prices, Len(prices))
  IN Ascending({c \in DOMAIN clusters : clusters[c] > 3})

\* arr.sort(compare) of numbers: descending for (a, b) => b - a, ascending
\* for (a, b) => a - b; equal numbers keep their order.
RECURSIVE sortNumbers(_, _)
sortNumbers(s, descending) ==
  IF s = <<>> THEN <<>>
  ELSE LET first == CHOOSE i \in 1..Len(s) :
                      /\ \A j \in 1..Len(s) :
                           IF descending THEN s[j] <= s[i] ELSE s[i] <= s[j]
                      /\ \A j \in 1..(i - 1) : s[j] # s[i]
       IN <<s[first]>>
          \o sortNumbers(SubSeq(s, 1, first - 1) \o SubSeq(s, first + 1, Len(s)),
                         descending)

\* candles.length < 20
KeyLevelsMinCandles == 20

\* candles.slice(-100)
KeyLevelsSample == 100

\* .slice(0, 3)
KeyLevelsTop == 3

\* The arrays findKeyLevels works on are numbered in the order it creates
\* them, array 1 being the series the caller passed.  keyLevelsStep is the
\* arrays after step k on the arrays before it: slice, map, filter and
\* findPriceClusters each return a new array; sort reorders the array it is
\* called on, which is the one filter has just returned.
keyLevelsStep(arrays, k) ==
  LET currentPrice == arrays[1][Len(arrays[1])].close
  IN CASE k = 2 -> Append(arrays, slice(arrays[1], -KeyLevelsSample))
       [] k = 3 -> Append(arrays, highs(arrays[2]))
       [] k = 4 -> Append(arrays, lows(arrays[2]))
       [] k = 5 -> Append(arrays, findPriceClusters(arrays[3]))
       [] k = 6 -> Append(arrays, findPriceClusters(arrays[4]))
       [] k = 7 -> Append(arrays, SelectSeq(arrays[6], LAMBDA level : level < currentPrice))
       [] k = 8 -> [arrays EXCEPT ![7] = sortNumbers(@, TRUE)]
       [] k = 9 -> Append(arrays, SubSeq(arrays[7], 1, Min2(KeyLevelsTop, Len(arrays[7]))))
       [] k = 10 -> Append(arrays, SelectSeq(arrays[5], LAMBDA level : level > currentPrice))
       [] k = 11 -> [arrays EXCEPT ![9] = sortNumbers(@, FALSE)]
       [] k = 12 -> Append(arrays, SubSeq(arrays[9], 1, Min2(KeyLevelsTop, Len(arrays[9]))))

\* The arrays after the steps up to k.
RECURSIVE keyLevelsAfter(_, _)
keyLevelsAfter(candles, k) ==
  IF k = 1 THEN <<candles>>
  ELSE keyLevelsStep(keyLevelsAfter(candles, k - 1), k)

\* The arrays when findKeyLevels returns: supportLevels is array 8,
\* resistanceLevels array 10.
keyLevelsArrays(candles) == keyLevelsAfter(candles, 12)

\* if (!this.isInitialized || candles.length < 20)
keyLevelsGate(initialized, candles) ==
  ~initialized \/ Len(candles) < KeyLevelsMinCandles

\* What findKeyLevels resolves to, for a series of positive integer prices.
findKeyLevels(initialized, candles) ==
  IF keyLevelsGate(initialized, candles)
  THEN [support |-> <<>>, resistance |-> <<>>]
  ELSE LET arrays == keyLevelsArrays(candles)
       IN [support |-> arrays[8], resistance |-> arrays[10]]

\* The series the caller passed, when findKeyLevels returns.
seriesAfterKeyLevels(initialized, candles) ==
  IF keyLevelsGate(initialized, candles) THEN candles
  ELSE keyLevelsArrays(candles)[1]

\* --------------------------------------------------------- basic indicators

\* period = 14 of calculateRSI.
RSIDefaultPeriod == 14

\* Mutant of calculateSMA: data.slice(period) for data.slice(-period).
calculateSMA_SliceFromStart(d, period) ==
  IF Len(d) < period
  THEN (IF Len(d) = 0 THEN R(0) ELSE R(d[Len(d)].close))
  ELSE RDiv(R(ISum(closes(slice(d, period)))), R(period))

calculateSMA(d, period) ==
  IF Len(d) < period
  THEN (IF Len(d) = 0 THEN R(0) ELSE R(d[Len(d)].close))
  ELSE NumDiv(R(ISum(closes(slice(d, -period)))), R(period))

\* The loop of calculateEMA from index i (0-based) on, with the running ema.
RECURSIVE emaLoop(_, _, _, _)
emaLoop(d, multiplier, i, ema) ==
  IF i >= Len(d) THEN ema
  ELSE LET next == RAdd(RMul(RSub(R(d[i + 1].close), ema), multiplier), ema)
       IN IF Computed(next) THEN emaLoop(d, multiplier, i + 1, next) ELSE next

\* Mutant of calculateEMA: the average is seeded with 0 and the loop starts
\* at the first candle.
calculateEMA_SeedZero(d, period) ==
  LET p == IF period = 0 THEN Len(d) ELSE period
      multiplier == Rat(2, p + 1)
  IN Ok(emaLoop(d, multiplier, 0, R(0)))

\* period = 0 stands for an omitted period (period || data.length).
calculateEMA(d, period) ==
  LET p == IF period = 0 THEN Len(d) ELSE period
      multiplier == Rat(2, p + 1)
  IN IF Len(d) = 0 THEN TypeError
     ELSE Ok(emaLoop(d, multiplier, 1, R(d[1].close)))

\* The first loop of calculateRSI: gains and losses over deltas 1..period.
RECURSIVE rsiInitial(_, _)

\* Mutant of rsiInitial: the size of every change is added to gains.
rsiInitial_AbsGains(d, i) ==
  IF i = 0 THEN [gains |-> 0, losses |-> 0]
  ELSE LET prev == rsiInitial(d, i - 1)
           change == d[i + 1].close - d[i].close
       IN IF change >= 0
          THEN [gains |-> prev.gains + change, losses |-> prev.losses]
          ELSE [gains |-> prev.gains - change, losses |-> prev.losses - change]

rsiInitial(d, i) ==
  IF i = 0 THEN [gains |-> 0, losses |-> 0]
  ELSE LET prev == rsiInitial(d, i - 1)
           change == d[i + 1].close - d[i].close
       IN IF change >= 0
          THEN [gains |-> prev.gains + change, losses |-> prev.losses]
          ELSE [gains |-> prev.gains, losses |-> prev.losses - change]

\* The smoothing loop of calculateRSI from index i (0-based) on.
RECURSIVE rsiSmooth(_, _, _, _, _)
rsiSmooth(d, period, i, avgGain, avgLoss) ==
  IF i >= Len(d) THEN [avgGain |-> avgGain, avgLoss |-> avgLoss]
  ELSE LET change == d[i + 1].close - d[i].close
           keep == R(period - 1)
       IN IF change >= 0
          THEN rsiSmooth(d, period, i + 1,
                 RDiv(RAdd(RMul(avgGain, keep), R(change)), R(period)),
                 RDiv(RMul(avgLoss, keep), R(period)))
          ELSE rsiSmooth(d, period, i + 1,
                 RDiv(RMul(avgGain, keep), R(period)),
                 RDiv(RSub(RMul(avgLoss, keep), R(change)), R(period)))

\* avgGain and avgLoss as calculateRSI holds them before its last test.
rsiAverages(d, period) ==
  LET init == rsiInitial(d, period)
  IN rsiSmooth(d, period, period + 1,
               Rat(init.gains, period), Rat(init.losses, period))

\* Mutant of calculateRSI: 100 - (100 / 1 + rs), the parentheses misplaced.
calculateRSI_Precedence(d, period) ==
  IF Len(d) < period + 1 THEN R(50)
  ELSE LET avg == rsiAverages(d, period)
       IN IF avg.avgLoss.n = 0 THEN R(100)
          ELSE LET rs == RDiv(avg.avgGain, avg.avgLoss)
               IN RSub(R(100), RAdd(RDiv(R(100), R(1)), rs))

\* Mutant of calculateRSI: too short a series yields 0 instead of 50.
calculateRSI_DefaultZero(d, period) ==
  IF Len(d) < period + 1 THEN R(0)
  ELSE LET avg == rsiAverages(d, period)
       IN IF avg.avgLoss.n = 0 THEN R(100)
          ELSE LET rs == RDiv(avg.avgGain, avg.avgLoss)
               IN RSub(R(100), RDiv(R(100), RAdd(R(1), rs)))

calculateRSI(d, period) ==
  IF Len(d) < period + 1 THEN R(50)
  ELSE LET avg == rsiAverages(d, period)
       IN IF avg.avgLoss.n = 0 THEN R(100)
          ELSE LET rs == RDiv(avg.avgGain, avg.avgLoss)
               IN RSub(R(100), RDiv(R(100), RAdd(R(1), rs)))

\* --------------------------------------------------- volatility indicators

\* The number a + b * sqrt(r), or NaN (0/0), with a, b, r rationals, r >= 0.
\* The program holds the double it computed for the number. Where the number
\* is rational, tilt is the side of the number's nearest double on which
\* that double lies: -1 below, 0 on it, 1 above. It decides the comparisons
\* of the program with a value the number equals. For an irrational number,
\* which equals no value it is compared with, tilt is 0.
Surd(a, b, r) == [nan |-> FALSE, a |-> a, b |-> b, r |-> r, tilt |-> 0]

NaN == [nan |-> TRUE, a |-> R(0), b |-> R(0), r |-> R(0), tilt |-> 0]

\* The exact s is above the rational x.
SurdAbove(s, x) ==
  LET t == RSub(x, s.a)
  IN IF s.b.n = 0 THEN t.n < 0
     ELSE LET q == RDiv(t, s.b)
          IN IF s.b.n > 0 THEN q.n < 0 \/ RGt(s.r, RMul(q, q))
             ELSE q.n > 0 /\ RLt(s.r, RMul(q, q))

\* The exact s is below the rational x.
SurdBelow(s, x) ==
  LET t == RSub(x, s.a)
  IN IF s.b.n = 0 THEN t.n > 0
     ELSE LET q == RDiv(t, s.b)
          IN IF s.b.n > 0 THEN q.n > 0 /\ RLt(s.r, RMul(q, q))
             ELSE q.n < 0 \/ RGt(s.r, RMul(q, q))

\* s > x for a rational x; every comparison with NaN is false.
SurdGt(s, x) ==
  IF s.nan THEN FALSE
  ELSE SurdAbove(s, x) \/ (~SurdBelow(s, x) /\ s.tilt > 0)

\* s < x for a rational x.
SurdLt(s, x) ==
  IF s.nan THEN FALSE
  ELSE SurdBelow(s, x) \/ (~SurdAbove(s, x) /\ s.tilt < 0)

\* The whole part of the square root of n < 2^31, from bit `bit` down.
RECURSIVE ISqrtFrom(_, _, _)
ISqrtFrom(n, root, bit) ==
  IF bit < 0 THEN root
  ELSE IF root + 2^bit <= n \div (root + 2^bit)
  THEN ISqrtFrom(n, root + 2^bit, bit - 1)
  ELSE ISqrtFrom(n, root, bit - 1)

IsSquare(n) == ISqrtFrom(n, 0, 15) * ISqrtFrom(n, 0, 15) = n

\* s is a finite rational number.
SurdIsRational(s) ==
  ~s.nan /\ s.a.d # 0 /\ (s.b.n = 0 \/ (IsSquare(s.r.n) /\ IsSquare(s.r.d)))

\* The rational a rational s is.
SurdRational(s) ==
  IF s.b.n = 0 THEN s.a
  ELSE RAdd(s.a, RMul(s.b, Rat(ISqrtFrom(s.r.n, 0, 15), ISqrtFrom(s.r.d, 0, 15))))

\* The number s held as the double f.
SurdRounded(s, f) ==
  IF SurdIsRational(s) /\ f.kind = "num"
  THEN [s EXCEPT !.tilt = F64Cmp(f, F64OfRat(SurdRational(s)))]
  ELSE s

\* x = k / 2^j: doubles hold such numbers of the sizes of prices exactly, and
\* their sums, differences and products too.
IsDyadic(x) == x.d # 0 /\ \E j \in 0..30 : x.d = 2^j

\* Math.pow(x, 2)
RSquare(x) == NumMul(x, x)

\* The sum of numbers, left to right from 0.
NumSum(s) ==
  IF \A i \in 1..Len(s) : s[i].d # 0 THEN RSum(s)
  ELSE IF \E i \in 1..Len(s) : s[i] = RNaN THEN RNaN
  ELSE IF \E i \in 1..Len(s), j \in 1..Len(s) : s[i].d = 0 /\ s[j].d = 0 /\ s[i] # s[j]
  THEN RNaN
  ELSE s[CHOOSE i \in 1..Len(s) : s[i].d = 0]

\* A number as a + 0 * sqrt(0).
SurdOf(x) == IF x = RNaN THEN NaN ELSE Surd(x, R(0), R(0))

\* Math.sqrt(x)
NumSqrt(x) ==
  IF x = RNaN \/ x.n < 0 THEN NaN
  ELSE IF x.d = 0 THEN SurdOf(x)
  ELSE Surd(R(0), R(1), x)

\* k * s for a finite k.
SurdScale(k, s) ==
  IF s.nan THEN NaN
  ELSE IF s.a.d = 0 THEN SurdOf(NumMul(k, s.a))
  ELSE Surd(RMul(k, s.a), RMul(k, s.b), s.r)

\* s + t, for s and t of one radicand where both have a root.
SurdAdd(s, t) ==
  IF s.nan \/ t.nan THEN NaN
  ELSE IF s.a.d = 0 \/ t.a.d = 0 THEN SurdOf(NumAdd(s.a, t.a))
  ELSE Surd(RAdd(s.a, t.a), RAdd(s.b, t.b), IF s.b.n # 0 THEN s.r ELSE t.r)

SurdNeg(s) == IF s.nan THEN NaN ELSE Surd(NumNeg(s.a), RNeg(s.b), s.r)

SurdSub(s, t) == SurdAdd(s, SurdNeg(t))

\* Mutant of calculateBollingerBands: the variance divides by the number of
\* candles passed in.
calculateBollingerBands_DivideByLength(d, period, stdDev) ==
  LET sma == calculateSMA(d, period)
      variance == NumDiv(NumSum([i \in 1..Len(d) |-> RSquare(NumSub(R(d[i].close), sma))]), R(Len(d)))
      standardDeviation == NumSqrt(variance)
  IN [upper |-> SurdAdd(SurdOf(sma), SurdScale(R(stdDev), standardDeviation)),
      middle |-> sma,
      lower |-> SurdSub(SurdOf(sma), SurdScale(R(stdDev), standardDeviation)),
      stdDev |-> standardDeviation]


\* calculateSMA in doubles: the sum of whole closes is exact, the division
\* rounds.
calculateSMAOfDoubles(d, period) ==
  IF Len(d) < period
  THEN F64OfInt(IF Len(d) = 0 THEN 0 ELSE d[Len(d)].close)
  ELSE F64Div(F64OfInt(ISum(closes(slice(d, -period)))), F64OfInt(period))

\* standardDeviation of calculateBollingerBands in doubles.
standardDeviationOfDoubles(d, period, sma) ==
  F64Sqrt(F64Div(squaredDeviationsOfDoubles(
                   [i \in 1..Len(d) |-> F64OfInt(d[i].close)],
                   sma, 1, Len(d), F64Zero),
                 F64OfInt(period)))

\* The bands as the doubles the program computes.
bollingerBandsOfDoubles(sma, stdDev, standardDeviation) ==
  [upper |-> F64Add(sma, F64Mul(F64OfInt(stdDev), standardDeviation)),
   lower |-> F64Sub(sma, F64Mul(F64OfInt(stdDev), standardDeviation)),
   stdDev |-> standardDeviation]

\* The bands with the sides their doubles lie on. Where the average and the
\* variance are dyadic every step in doubles is exact.
bollingerBandsRounded(bands, variance, doubles) ==
  IF variance = RNaN \/ (IsDyadic(bands.middle) /\ IsDyadic(variance)) THEN bands
  ELSE IF ~SurdIsRational(bands.stdDev) THEN bands
  ELSE [upper |-> SurdRounded(bands.upper, doubles.upper),
        middle |-> bands.middle,
        lower |-> SurdRounded(bands.lower, doubles.lower),
        stdDev |-> SurdRounded(bands.stdDev, doubles.stdDev)]

calculateBollingerBands(d, period, stdDev) ==
  LET sma == calculateSMA(d, period)
      variance == NumDiv(NumSum([i \in 1..Len(d) |->
                                  RSquare(NumSub(R(d[i].close), sma))]),
                         R(period))
      standardDeviation == NumSqrt(variance)
  IN bollingerBandsRounded(
       [upper |-> SurdAdd(SurdOf(sma), SurdScale(R(stdDev), standardDeviation)),
        middle |-> sma,
        lower |-> SurdSub(SurdOf(sma), SurdScale(R(stdDev), standardDeviation)),
        stdDev |-> standardDeviation],
       variance,
       bollingerBandsOfDoubles(
         calculateSMAOfDoubles(d, period), stdDev,
         standardDeviationOfDoubles(d, period,
                                    calculateSMAOfDoubles(d, period))))

\* Mutant of trueRange: the distances to the previous close keep their sign.
trueRange_Signed(d, j) ==
  LET tr1 == d[j].high - d[j].low
      tr2 == d[j].high - d[j - 1].close
      tr3 == d[j].low - d[j - 1].close
  IN Max2(Max2(tr1, tr2), tr3)

\* Math.max(tr1, tr2, tr3) of candle j against its predecessor (1-based j >= 2).
trueRange(d, j) ==
  LET tr1 == d[j].high - d[j].low
      tr2 == Abs(d[j].high - d[j - 1].close)
      tr3 == Abs(d[j].low - d[j - 1].close)
  IN Max2(Max2(tr1, tr2), tr3)

calculateATR(d, period) ==
  LET trueRanges == [i \in 1..(Len(d) - 1) |-> trueRange(d, i + 1)]
  IN Rat(ISum(trueRanges), period)

\* returns of calculateVolatility in doubles.
returnsOfDoubles(d) ==
  [i \in 1..(Len(d) - 1) |->
     F64Div(F64OfInt(d[i + 1].close - d[i].close), F64OfInt(d[i].close))]

\* Math.sqrt(variance) * 100 of the returns and their mean in doubles.
volatilityOfReturns(returns, meanReturn) ==
  F64Mul(F64Sqrt(F64Div(squaredDeviationsOfDoubles(returns, meanReturn, 1,
                                                   Len(returns), F64Zero),
                        F64OfInt(Len(returns)))),
         F64OfInt(100))

\* calculateVolatility of two candles or more in doubles.
volatilityOfDoubles(d) ==
  volatilityOfReturns(
    returnsOfDoubles(d),
    F64Div(sumOfDoubles(returnsOfDoubles(d), 1, Len(d) - 1, F64Zero),
           F64OfInt(Len(d) - 1)))

\* Closes are positive, so no return divides by zero; with fewer than two
\* candles returns is empty and the mean is 0 / 0.
calculateVolatility(d) ==
  LET returns == [i \in 1..(Len(d) - 1) |->
                    Rat(d[i + 1].close - d[i].close, d[i].close)]
  IN IF Len(returns) = 0 THEN NaN
     ELSE LET meanReturn == RDiv(RSum(returns), R(Len(returns)))
              variance == RDiv(RSum([i \in 1..Len(returns) |->
                                       RSquare(RSub(returns[i], meanReturn))]),
                               R(Len(returns)))
          IN SurdRounded(Surd(R(0), R(100), variance), volatilityOfDoubles(d))

\* -------------------------------------------------------- trend indicators

calculateMomentum(d) ==
  IF Len(d) = 0 THEN TypeError
  ELSE Ok(RMul(Rat(d[Len(d)].close - d[1].close, d[1].close), R(100)))

\* ------------------------------------------------------------- stochastic

StochPeriod == 14

StochKPeriod == 3

StochDPeriod == 3

\* Mutant of stochRawK: the close is not taken relative to the lowest low.
stochRawK_CloseNotRelative(d, j) ==
  LET window == SubSeq(d, j - StochPeriod + 1, j)
      highest == IMax(highs(window))
      lowest == IMin(lows(window))
      lastClose == window[Len(window)].close
  IN IF highest = lowest THEN R(50)
     ELSE RMul(Rat(lastClose, highest - lowest), R(100))

\* The raw %K of the window that ends at candle j (1-based, j >= StochPeriod).
stochRawK(d, j) ==
  LET window == SubSeq(d, j - StochPeriod + 1, j)
      highest == IMax(highs(window))
      lowest == IMin(lows(window))
      lastClose == window[Len(window)].close
  IN IF highest = lowest THEN R(50)
     ELSE RMul(Rat(lastClose - lowest, highest - lowest), R(100))

\* kValues after the nulls of the first period - 1 candles are filtered out.
stochKValues(d) ==
  [i \in 1..(Len(d) - StochPeriod + 1) |-> stochRawK(d, i + StochPeriod - 1)]

\* The simple moving averages of every run of `width` consecutive values.
stochSmooth(values, width) ==
  [i \in 1..(Len(values) - width + 1) |->
     RDiv(RSum(SubSeq(values, i, i + width - 1)), R(width))]

\* Mutant of calculateStochastic: each line falls back to 50 on its own.
calculateStochastic_PerLineDefault(d) ==
  LET smoothedK == stochSmooth(stochKValues(d), StochKPeriod)
      smoothedD == stochSmooth(smoothedK, StochDPeriod)
  IN [k |-> IF Len(smoothedK) = 0 THEN R(50) ELSE smoothedK[Len(smoothedK)],
      d |-> IF Len(smoothedD) = 0 THEN R(50) ELSE smoothedD[Len(smoothedD)]]

\* stochRawK in doubles.
stochRawKOfDoubles(d, j) ==
  LET window == SubSeq(d, j - StochPeriod + 1, j)
      highest == IMax(highs(window))
      lowest == IMin(lows(window))
      lastClose == window[Len(window)].close
  IN IF highest = lowest THEN F64OfInt(50)
     ELSE F64Mul(F64Div(F64OfInt(lastClose - lowest), F64OfInt(highest - lowest)),
                 F64OfInt(100))

\* The last `count` averages of stochSmooth in doubles.
stochSmoothOfDoubles(values, width, count) ==
  [i \in 1..count |->
     F64Div(sumOfDoubles(values, Len(values) - width - count + 1 + i,
                         Len(values) - count + i, F64Zero),
            F64OfInt(width))]

\* The last of the three last smoothedK, and the smoothedD they average to.
stochLastOfDoubles(smoothedK) ==
  [k |-> smoothedK[StochDPeriod],
   d |-> stochSmoothOfDoubles(smoothedK, StochDPeriod, 1)[1]]

\* The last smoothedK and the last smoothedD in doubles, for a series that
\* has a smoothedD: they are computed from the last five raw values.
stochasticOfDoubles(d) ==
  stochLastOfDoubles(
    stochSmoothOfDoubles(
      [i \in 1..(StochKPeriod + StochDPeriod - 1) |->
         stochRawKOfDoubles(d, Len(d) - StochKPeriod - StochDPeriod + 1 + i)],
      StochKPeriod, StochDPeriod))

\* The two lines with the doubles the program holds for them.
stochasticRounded(k, d, doubles) ==
  [k |-> RRounded(k, doubles.k), d |-> RRounded(d, doubles.d)]

calculateStochastic(d) ==
  LET smoothedK == stochSmooth(stochKValues(d), StochKPeriod)
      smoothedD == stochSmooth(smoothedK, StochDPeriod)
  IN IF Len(smoothedK) = 0 \/ Len(smoothedD) = 0
     THEN [k |-> R(50), d |-> R(50)]
     ELSE stochasticRounded(smoothedK[Len(smoothedK)],
                            smoothedD[Len(smoothedD)], stochasticOfDoubles(d))

\* ---------------------------------------------------- support & resistance

\* What iteration i (0-based) of the loop of findOrderBlocks pushes.
orderBlocksAt(d, i) ==
  LET current == d[i + 1]
      next == d[i + 2]
      bullish == IF current.close < current.open /\ next.close > next.open
                    /\ next.close > current.high
                 THEN <<[type |-> "bullish", top |-> current.high,
                         bottom |-> current.low, time |-> current.time]>>
                 ELSE <<>>
      bearish == IF current.close > current.open /\ next.close < next.open
                    /\ next.close < current.low
                 THEN <<[type |-> "bearish", top |-> current.high,
                         bottom |-> current.low, time |-> current.time]>>
                 ELSE <<>>
  IN bullish \o bearish

\* for (let i = 1; i < data.length - 1; i++): the pushes of i = 1 .. length - 2.
findOrderBlocks(d) ==
  Flatten([k \in 1..(Len(d) - 2) |-> orderBlocksAt(d, k)])

\* For a non-empty series (Math.max of nothing is -Infinity).
findSupportResistanceAndOrderBlocks(d) ==
  [support |-> IMin(lows(d)),
   resistance |-> IMax(highs(d)),
   orderBlocks |-> findOrderBlocks(d)]

\* ---------------------------------------------------------- volume analysis

\* candle.close > candle.open ? candle.volume : -candle.volume
signedVolume(candle) ==
  IF candle.close > candle.open THEN candle.volume ELSE -candle.volume

\* The running sum of calculateCVD after all candles.
calculateCVD(d) == ISum([i \in 1..Len(d) |-> signedVolume(d[i])])

\* Mutant of deltaOf: a candle that closes where it opened counts as buying.
deltaOf_GreaterOrEqual(candle) ==
  IF candle.close >= candle.open THEN candle.volume ELSE -candle.volume

\* The delta of analyzeDeltaVolume's map callback.
deltaOf(candle) ==
  IF candle.close > candle.open THEN candle.volume ELSE -candle.volume

\* An object literal before its properties are set.
EmptyObject == [f \in {} |-> 0]

\* obj after obj[name] = value: the property is added if obj lacks it.
setField(obj, name, value) == (name :> value) @@ obj

\* Mutant of deltaVolumeRefs: the map callback sets the properties on the
\* candle it is given and returns that candle.
deltaVolumeRefs_Alias(d) == [i \in 1..Len(d) |-> i]

\* analyzeDeltaVolume works on objects, numbered here: the candles of the
\* series are the objects 1..n, and the object literal that the map callback
\* returns for candle i is a new object, n + i.  deltaVolume holds these.
deltaVolumeRefs(d) == [i \in 1..Len(d) |-> Len(d) + i]

\* The objects after the map callback has run for the candles lo..hi: the
\* object returned for a candle has the candle's time, its delta and a
\* cumulative of 0.
RECURSIVE deltaVolumeMap(_, _, _, _)
deltaVolumeMap(objects, refs, lo, hi) ==
  IF lo > hi THEN objects
  ELSE IF lo = hi
  THEN [objects EXCEPT ![refs[lo]] =
          setField(setField(setField(@, "time", objects[lo].time),
                            "delta", deltaOf(objects[lo])),
                   "cumulative", 0)]
  ELSE LET half == deltaVolumeMap(objects, refs, lo, (lo + hi) \div 2)
       IN IF Computed(half) THEN deltaVolumeMap(half, refs, (lo + hi) \div 2 + 1, hi) ELSE half

\* The objects and the running total after the turns lo..hi of the loop
\* over deltaVolume: cumulative += dv.delta; dv.cumulative = cumulative.
RECURSIVE deltaCumulate(_, _, _, _)
deltaCumulate(state, refs, lo, hi) ==
  IF lo > hi THEN state
  ELSE IF lo = hi
  THEN LET cumulative == state.cumulative + state.objects[refs[lo]].delta
       IN [objects |-> [state.objects EXCEPT ![refs[lo]] =
                          setField(@, "cumulative", cumulative)],
           cumulative |-> cumulative]
  ELSE LET half == deltaCumulate(state, refs, lo, (lo + hi) \div 2)
       IN IF Computed(half) THEN deltaCumulate(half, refs, (lo + hi) \div 2 + 1, hi) ELSE half

\* Every object when analyzeDeltaVolume returns.
deltaVolumeObjects(d) ==
  LET n == Len(d)
      refs == deltaVolumeRefs(d)
      fresh == d \o [i \in 1..n |-> EmptyObject]
      mapped == deltaVolumeMap(fresh, refs, 1, n)
  IN deltaCumulate([objects |-> mapped, cumulative |-> 0], refs, 1, n).objects

\* The array analyzeDeltaVolume returns.
analyzeDeltaVolume(d) ==
  LET objects == deltaVolumeObjects(d)
      deltaVolume == deltaVolumeRefs(d)
  IN [i \in 1..Len(d) |-> objects[deltaVolume[i]]]

\* The series the caller passed, when analyzeDeltaVolume returns.
seriesAfterDeltaVolume(d) == SubSeq(deltaVolumeObjects(d), 1, Len(d))

\* The candles of an array when callee returns from a call on it.
\* analyzeDeltaVolume is the one function that assigns to a field of an
\* object (dv.cumulative = cumulative), and its objects are those its map
\* callback returned; the other functions assign to no field of a candle
\* and to no element of an array they were passed.
candlesAfter(callee, candles) ==
  IF callee = "analyzeDeltaVolume" THEN seriesAfterDeltaVolume(candles)
  ELSE candles

\* The series after a function has run on series.slice(-n): the slice is an
\* array of its own that holds the very candles the series holds, so the
\* candles as the function left them are the last candles of the series.
seriesThroughSlice(series, candles) ==
  SubSeq(series, 1, Len(series) - Len(candles)) \o candles

\* The series after the calls from the k-th on, each call <<callee, n>> made
\* on series.slice(-n).
RECURSIVE seriesAfterCalls(_, _, _)
seriesAfterCalls(series, calls, k) ==
  IF k > Len(calls) THEN series
  ELSE seriesAfterCalls(
         seriesThroughSlice(series,
                            candlesAfter(calls[k][1], slice(series, -calls[k][2]))),
         calls, k + 1)

\* Math.round(candle.close / 10) * 10 for an integer close >= 0.
priceLevel(candle) == ((candle.close + 5) \div 10) * 10

\* For a non-empty series.  The keys of volumeByPrice are integers, which
\* Object.entries lists in ascending order; the reduce keeps the later entry
\* on a tie, so poc is the highest level among those of maximum volume.
analyzeVolumeProfile(d) ==
  LET levelsSeen == {priceLevel(d[i]) : i \in 1..Len(d)}
      volumeAt(l) == ISum([i \in 1..Len(d) |->
                             IF priceLevel(d[i]) = l THEN d[i].volume ELSE 0])
      maxVolume == CHOOSE v \in {volumeAt(l) : l \in levelsSeen} :
                     \A l \in levelsSeen : volumeAt(l) <= v
      maxVolumePrice == CHOOSE l \in levelsSeen :
                          /\ volumeAt(l) = maxVolume
                          /\ \A m \in levelsSeen : volumeAt(m) = maxVolume => m <= l
  IN [poc |-> maxVolumePrice, maxVolume |-> maxVolume]

\* if (levelIndex >= 0 && levelIndex < levels), or -1.
levelIndexWithin(levelIndex, levels) ==
  IF levelIndex >= 0 /\ levelIndex < levels THEN levelIndex ELSE -1

\* Math.floor of the quotient where it passes the test; NaN and Infinity
\* fail it.
levelIndexOf(quotient, levels) ==
  IF quotient.kind # "num" THEN -1
  ELSE levelIndexWithin(F64Floor(quotient), levels)

\* The bucket of calculateVolumeProfile a candle's volume goes to, or -1
\* when the test levelIndex >= 0 && levelIndex < levels fails (also when
\* levelSize is 0 and levelIndex is NaN or Infinity). The index is the floor
\* of a quotient of doubles, (avgPrice - low) / levelSize. Its roundings move
\* the quotient by less than 2^-50 of it: across no whole number when the
\* exact quotient, a fraction of small whole numbers, is not whole; and when
\* it is whole, a midpoint on the boundary of two buckets falls into the
\* lower one where the quotient is rounded to just below the whole number.
profileLevelIndex(candle, low, priceRange, levels) ==
  IF priceRange = 0 THEN -1
  ELSE IF ((candle.high + candle.low - 2 * low) * levels) % (2 * priceRange) # 0
  THEN levelIndexWithin(((candle.high + candle.low - 2 * low) * levels)
                          \div (2 * priceRange),
                        levels)
  ELSE levelIndexOf(F64Div(F64Sub(F64Div(F64OfInt(candle.high + candle.low),
                                         F64OfInt(2)),
                                  F64OfInt(low)),
                           F64Div(F64OfInt(priceRange), F64OfInt(levels))),
                    levels)

\* profile[levelIndex] += candle.volume for the candles from i on, in order.
RECURSIVE profileFrom(_, _, _, _, _, _)
profileFrom(d, i, low, priceRange, levels, profile) ==
  IF i > Len(d) THEN profile
  ELSE LET add(levelIndex) ==
             IF levelIndex = -1 THEN profile
             ELSE [profile EXCEPT ![levelIndex + 1] = @ + d[i].volume]
       IN profileFrom(d, i + 1, low, priceRange, levels,
                      add(profileLevelIndex(d[i], low, priceRange, levels)))

\* profile.indexOf(value): the first 0-based index holding value.
indexOf(profile, value) ==
  (CHOOSE i \in 1..Len(profile) :
     profile[i] = value /\ \A j \in 1..(i - 1) : profile[j] # value) - 1

\* For a non-empty series.
calculateVolumeProfile(d, levels) ==
  LET high == IMax(highs(d))
      low == IMin(lows(d))
      priceRange == high - low
      levelSize == Rat(priceRange, levels)
      result(profile) ==
        [profile |-> profile,
         poc |-> RAdd(R(low),
                      RMul(R(indexOf(profile, IMax(profile))), levelSize)),
         valueArea |-> RMul(R(ISum(profile)), Rat(7, 10))]
  IN result(profileFrom(d, 1, low, priceRange, levels,
                        [k \in 1..levels |-> 0]))

\* ---------------------------------------------------------- market analysis

\* The labels of calculateRiskLevel: high, medium and low, in Hebrew.
RiskHigh == "גבוה"

RiskMedium == "בינוני"

RiskLow == "נמוך"

\* Mutant of calculateRiskLevel: an RSI of exactly 30 or 70 counts as risk.
calculateRiskLevel_InclusiveRSI(rsi, volatility, momentum, atr) ==
  LET riskScore ==
        Rat((IF RLe(R(70), rsi) \/ RLe(rsi, R(30)) THEN 2 ELSE 1)
            + (IF SurdGt(volatility, R(5)) THEN 2 ELSE 1)
            + (IF RGt(RAbs(momentum), R(10)) THEN 2 ELSE 1)
            + (IF RGt(atr, R(100)) THEN 2 ELSE 1), 4)
  IN IF RGt(riskScore, Rat(3, 2)) THEN RiskHigh
     ELSE IF RGt(riskScore, R(1)) THEN RiskMedium
     ELSE RiskLow

calculateRiskLevel(rsi, volatility, momentum, atr) ==
  LET riskScore ==
        Rat((IF RGt(rsi, R(70)) \/ RLt(rsi, R(30)) THEN 2 ELSE 1)
            + (IF SurdGt(volatility, R(5)) THEN 2 ELSE 1)
            + (IF RGt(RAbs(momentum), R(10)) THEN 2 ELSE 1)
            + (IF RGt(atr, R(100)) THEN 2 ELSE 1), 4)
  IN IF RGt(riskScore, Rat(3, 2)) THEN RiskHigh
     ELSE IF RGt(riskScore, R(1)) THEN RiskMedium
     ELSE RiskLow

\* What the map callback of analyzeMarketStructure returns for candle j
\* (1-based), as a list of zero or one swing.
swingAt(d, j) ==
  IF j = 1 \/ j = Len(d) THEN <<>>
  ELSE IF d[j].high > d[j - 1].high /\ d[j].high > d[j + 1].high
       THEN <<[type |-> "high", price |-> d[j].high, time |-> d[j].time]>>
  ELSE IF d[j].low < d[j - 1].low /\ d[j].low < d[j + 1].low
       THEN <<[type |-> "low", price |-> d[j].low, time |-> d[j].time]>>
  ELSE <<>>

analyzeMarketStructure(d) ==
  LET swings == Flatten([j \in 1..Len(d) |-> swingAt(d, j)])
      trend == IF Len(swings) >= 2
               THEN (IF swings[Len(swings)].price > swings[Len(swings) - 1].price
                     THEN "uptrend" ELSE "downtrend")
               ELSE "neutral"
  IN IF Len(d) = 0 THEN TypeError
     ELSE Ok([swingPoints |-> swings,
              trend |-> trend,
              strength |-> RMul(Rat(Abs(d[Len(d)].close - d[1].close), d[1].close),
                                R(100))])

\* indicator[i] of detectDivergence (0-based i): the RSI of the 15 candles
\* up to i, or the difference of two EMAs of the 27 candles up to i.
divergenceIndicatorAt(d, type, i) ==
  IF type = "rsi"
  THEN calculateRSI(SubSeq(d, Max2(0, i - 14) + 1, i + 1), RSIDefaultPeriod)
  ELSE LET window == SubSeq(d, Max2(0, i - 26) + 1, i + 1)
           ema12 == calculateEMA(slice(window, -12), 12).value
           ema26 == calculateEMA(window, 26).value
       IN RSub(ema12, ema26)

\* Mutant of detectDivergence: the hidden tests are the else branch of the
\* regular ones.
detectDivergence_HiddenOtherwise(d, type) ==
  LET n == Len(d)
      priceFell == n >= 2 /\ d[n].close < d[n - 1].close
      priceRose == n >= 2 /\ d[n].close > d[n - 1].close
      last == divergenceIndicatorAt(d, type, n - 1)
      previous == divergenceIndicatorAt(d, type, n - 2)
      indicatorRose == n >= 2 /\ RGt(last, previous)
      indicatorFell == n >= 2 /\ RLt(last, previous)
  IN IF priceFell /\ indicatorRose
     THEN <<[type |-> "regular", direction |-> "bullish"]>>
     ELSE IF priceRose /\ indicatorFell
     THEN <<[type |-> "regular", direction |-> "bearish"]>>
     ELSE IF priceRose THEN <<[type |-> "hidden", direction |-> "bullish"]>>
     ELSE IF priceFell THEN <<[type |-> "hidden", direction |-> "bearish"]>>
     ELSE <<>>

\* Only the last two closes and the last two indicator values are read;
\* below two candles one of each pair is undefined and every test is false.
detectDivergence(d, type) ==
  LET n == Len(d)
      priceFell == n >= 2 /\ d[n].close < d[n - 1].close
      priceRose == n >= 2 /\ d[n].close > d[n - 1].close
      last == divergenceIndicatorAt(d, type, n - 1)
      previous == divergenceIndicatorAt(d, type, n - 2)
      indicatorRose == n >= 2 /\ RGt(last, previous)
      indicatorFell == n >= 2 /\ RLt(last, previous)
  IN (IF priceFell /\ indicatorRose
      THEN <<[type |-> "regular", direction |-> "bullish"]>> ELSE <<>>)
     \o (IF priceRose /\ indicatorFell
         THEN <<[type |-> "regular", direction |-> "bearish"]>> ELSE <<>>)
     \o (IF priceRose /\ indicatorRose
         THEN <<[type |-> "hidden", direction |-> "bullish"]>> ELSE <<>>)
     \o (IF priceFell /\ indicatorFell
         THEN <<[type |-> "hidden", direction |-> "bearish"]>> ELSE <<>>)


\* -------------------------------------------------------- utility functions

\* Mutant of determineTrend: the close is compared with SMA200 the other way
\* round.
determineTrend_CrossedAverage(lastClose, sma50, sma200) ==
  LET priceAboveSMA50 == RGt(lastClose, sma50)
      priceAboveSMA200 == RGt(sma200, lastClose)
      sma50AboveSMA200 == RGt(sma50, sma200)
  IN IF priceAboveSMA50 /\ priceAboveSMA200 /\ sma50AboveSMA200
     THEN "Strong Bullish"
     ELSE IF priceAboveSMA50 /\ sma50AboveSMA200 THEN "Bullish"
     ELSE IF ~priceAboveSMA50 /\ ~priceAboveSMA200 /\ ~sma50AboveSMA200
          THEN "Strong Bearish"
     ELSE IF ~priceAboveSMA50 /\ ~sma50AboveSMA200 THEN "Bearish"
     ELSE "Neutral"


\* Mutant of determineTrend: the weak variants are tested before the strong.
determineTrend_WeakFirst(lastClose, sma50, sma200) ==
  LET priceAboveSMA50 == RGt(lastClose, sma50)
      priceAboveSMA200 == RGt(lastClose, sma200)
      sma50AboveSMA200 == RGt(sma50, sma200)
  IN IF priceAboveSMA50 /\ sma50AboveSMA200 THEN "Bullish"
     ELSE IF priceAboveSMA50 /\ priceAboveSMA200 /\ sma50AboveSMA200
          THEN "Strong Bullish"
     ELSE IF ~priceAboveSMA50 /\ ~sma50AboveSMA200 THEN "Bearish"
     ELSE IF ~priceAboveSMA50 /\ ~priceAboveSMA200 /\ ~sma50AboveSMA200
          THEN "Strong Bearish"
     ELSE "Neutral"

\* "Determine trend" of getTechnicalAnalysisSummary.
determineTrend(lastClose, sma50, sma200) ==
  LET priceAboveSMA50 == RGt(lastClose, sma50)
      priceAboveSMA200 == RGt(lastClose, sma200)
      sma50AboveSMA200 == RGt(sma50, sma200)
  IN IF priceAboveSMA50 /\ priceAboveSMA200 /\ sma50AboveSMA200
     THEN "Strong Bullish"
     ELSE IF priceAboveSMA50 /\ sma50AboveSMA200 THEN "Bullish"
     ELSE IF ~priceAboveSMA50 /\ ~priceAboveSMA200 /\ ~sma50AboveSMA200
          THEN "Strong Bearish"
     ELSE IF ~priceAboveSMA50 /\ ~sma50AboveSMA200 THEN "Bearish"
     ELSE "Neutral"

\* "Overbought/Oversold conditions" of getTechnicalAnalysisSummary.
marketConditionOf(rsi, stochK, stochD) ==
  IF RGt(rsi, R(70)) /\ RoundedGt(stochK, R(80)) /\ RoundedGt(stochD, R(80))
  THEN "Strongly Overbought"
  ELSE IF RGt(rsi, R(60)) /\ RoundedGt(stochK, R(70)) THEN "Overbought"
  ELSE IF RLt(rsi, R(30)) /\ RoundedLt(stochK, R(20)) /\ RoundedLt(stochD, R(20))
       THEN "Strongly Oversold"
  ELSE IF RLt(rsi, R(40)) /\ RoundedLt(stochK, R(30)) THEN "Oversold"
  ELSE "Neutral"

\* Mutant of signalsOf: the tests are chained with else, so that only the
\* first signal whose rule holds is pushed.
signalsOf_ElseIf(rsi, trend, stochK, stochD, lastPrice, bands) ==
  IF RLt(rsi, R(30)) /\ trend # "Strong Bearish"
  THEN <<"RSI Oversold - Potential Buy">>
  ELSE IF RGt(rsi, R(70)) /\ trend # "Strong Bullish"
  THEN <<"RSI Overbought - Potential Sell">>
  ELSE IF RoundedLt(stochK, stochD) /\ RoundedLt(stochK, R(20)) /\ RoundedLt(stochD, R(20))
  THEN <<"Stochastic Oversold - Watch for Bull Cross">>
  ELSE IF RoundedGt(stochK, stochD) /\ RoundedGt(stochK, R(80)) /\ RoundedGt(stochD, R(80))
  THEN <<"Stochastic Overbought - Watch for Bear Cross">>
  ELSE IF SurdGt(bands.lower, lastPrice)
  THEN <<"Price below Lower Bollinger Band - Potential Buy">>
  ELSE IF SurdLt(bands.upper, lastPrice)
  THEN <<"Price above Upper Bollinger Band - Potential Sell">>
  ELSE <<>>

\* "Potential signals" of getTechnicalAnalysisSummary: the pushes in order.
signalsOf(rsi, trend, stochK, stochD, lastPrice, bands) ==
  (IF RLt(rsi, R(30)) /\ trend # "Strong Bearish"
   THEN <<"RSI Oversold - Potential Buy">> ELSE <<>>)
  \o (IF RGt(rsi, R(70)) /\ trend # "Strong Bullish"
      THEN <<"RSI Overbought - Potential Sell">> ELSE <<>>)
  \o (IF RoundedLt(stochK, stochD) /\ RoundedLt(stochK, R(20)) /\ RoundedLt(stochD, R(20))
      THEN <<"Stochastic Oversold - Watch for Bull Cross">> ELSE <<>>)
  \o (IF RoundedGt(stochK, stochD) /\ RoundedGt(stochK, R(80)) /\ RoundedGt(stochD, R(80))
      THEN <<"Stochastic Overbought - Watch for Bear Cross">> ELSE <<>>)
  \o (IF SurdGt(bands.lower, lastPrice)
      THEN <<"Price below Lower Bollinger Band - Potential Buy">> ELSE <<>>)
  \o (IF SurdLt(bands.upper, lastPrice)
      THEN <<"Price above Upper Bollinger Band - Potential Sell">> ELSE <<>>)

\* if (!data || data.length < 200)
SummaryMinCandles == 200

\* Mutant of summaryGate: a series of exactly 200 candles is refused.
summaryGate_OffByOne(absent, d) == absent \/ Len(d) <= SummaryMinCandles

\* The test that sends getTechnicalAnalysisSummary to its error result.
summaryGate(absent, d) == absent \/ Len(d) < SummaryMinCandles

\* The summary getTechnicalAnalysisSummary returns for the indicators it
\* computed of the series.
summaryOf(d, rsi, stoch, bands, volatility) ==
  LET recentData == slice(d, -100)
      shortTermData == slice(d, -14)
      sma50 == calculateSMA(slice(d, -50), 50)
      sma200 == calculateSMA(slice(d, -200), 200)
      momentum == calculateMomentum(shortTermData).value
      levels == findSupportResistanceAndOrderBlocks(recentData)
      atr == calculateATR(shortTermData, 14)
      volumeProfile == analyzeVolumeProfile(recentData)
      lastPrice == R(d[Len(d)].close)
      trend == determineTrend(lastPrice, sma50, sma200)
  IN [lastPrice |-> lastPrice,
      trend |-> trend,
      marketCondition |-> marketConditionOf(rsi, stoch.k, stoch.d),
      riskLevel |-> calculateRiskLevel(rsi, volatility, momentum, atr),
      indicators |-> [sma50 |-> sma50,
                      sma200 |-> sma200,
                      rsi |-> rsi,
                      stochastic |-> [k |-> stoch.k, d |-> stoch.d],
                      bollingerBands |-> bands,
                      momentum |-> momentum,
                      atr |-> atr,
                      volatility |-> volatility],
      levels |-> [support |-> levels.support,
                  resistance |-> levels.resistance,
                  volumePOC |-> volumeProfile.poc],
      signals |-> signalsOf(rsi, trend, stoch.k, stoch.d, lastPrice, bands)]

\* Mutant of getTechnicalAnalysisSummary: the RSI is taken of the last 15
\* candles, one more than its period.
getTechnicalAnalysisSummary_RSIOfFifteen(absent, d) ==
  IF summaryGate(absent, d)
  THEN [error |-> "Not enough data for reliable analysis"]
  ELSE summaryOf(d, calculateRSI(slice(d, -15), 14),
                 calculateStochastic(slice(d, -100)),
                 calculateBollingerBands(slice(d, -100), 20, 2),
                 calculateVolatility(slice(d, -14)))

\* absent: the caller passed null or undefined instead of an array.
getTechnicalAnalysisSummary(absent, d) ==
  IF summaryGate(absent, d)
  THEN [error |-> "Not enough data for reliable analysis"]
  ELSE LET recentData == slice(d, -100)
           shortTermData == slice(d, -14)
       IN summaryOf(d, calculateRSI(shortTermData, 14),
                    calculateStochastic(recentData),
                    calculateBollingerBands(recentData, 20, 2),
                    calculateVolatility(shortTermData))

\* The calls getTechnicalAnalysisSummary makes on slices of the series, in
\* order: recentData is data.slice(-100), shortTermData data.slice(-14).
summaryCalls ==
  << <<"calculateSMA", 50>>, <<"calculateSMA", 200>>, <<"calculateRSI", 14>>,
     <<"calculateStochastic", 100>>, <<"calculateBollingerBands", 100>>,
     <<"calculateMomentum", 14>>,
     <<"findSupportResistanceAndOrderBlocks", 100>>, <<"calculateATR", 14>>,
     <<"calculateVolatility", 14>>, <<"analyzeVolumeProfile", 100>> >>

\* The series the caller passed, when getTechnicalAnalysisSummary returns.
seriesAfterSummary(absent, d) ==
  IF summaryGate(absent, d) THEN d ELSE seriesAfterCalls(d, summaryCalls, 1)

\* ------------------------------------------------------------ chart patterns

\* Math.abs(first - second) / first < 0.02, for positive integer prices.
withinTwoPercent(first, second) ==
  RLt(Rat(Abs(first - second), first), Rat(2, 100))

\* The test of the Head and Shoulders loop at i (0-based).
headAndShouldersAt(hs, i) ==
  LET leftShoulder == hs[i + 1]
      head == hs[i + 3]
      rightShoulder == hs[i + 5]
  IN /\ head > leftShoulder
     /\ head > rightShoulder
     /\ withinTwoPercent(leftShoulder, rightShoulder)

\* The test of the Double Top loop at i (0-based).
doubleTopAt(hs, i) ==
  /\ withinTwoPercent(hs[i + 1], hs[i + 3])
  /\ hs[i + 2] < Min2(hs[i + 1], hs[i + 3])

\* The test of the Double Bottom loop at i (0-based).
doubleBottomAt(ls, i) ==
  /\ withinTwoPercent(ls[i + 1], ls[i + 3])
  /\ ls[i + 2] > Max2(ls[i + 1], ls[i + 3])

\* Each loop runs over i < length - 5 (or length - 3) and pushes its label
\* at the first i that passes the test.
findChartPatterns(d) ==
  LET hs == highs(d)
      ls == lows(d)
  IN (IF \E i \in 0..(Len(hs) - 6) : headAndShouldersAt(hs, i)
      THEN <<"Head and Shoulders">> ELSE <<>>)
     \o (IF \E i \in 0..(Len(hs) - 4) : doubleTopAt(hs, i)
         THEN <<"Double Top">> ELSE <<>>)
     \o (IF \E i \in 0..(Len(ls) - 4) : doubleBottomAt(ls, i)
         THEN <<"Double Bottom">> ELSE <<>>)

\* ----------------------------------------------------------- candle patterns

\* x < y of numbers: every comparison with NaN is false.
NumLt(x, y) ==
  IF x = RNaN \/ y = RNaN THEN FALSE
  ELSE IF x.d # 0 /\ y.d # 0 THEN RLt(x, y)
  ELSE x # y /\ (x = NumNeg(Infinity) \/ y = Infinity)

\* The Doji test of both classifiers: body / range < 0.1.
isDoji(c) ==
  NumLt(NumDiv(R(Abs(c.open - c.close)), R(c.high - c.low)), Rat(1, 10))

\* The Engulfing tests of findCandlePatterns.
candleEngulfing(c4, c5) ==
  (IF c4.close < c4.open /\ c5.close > c5.open
      /\ c5.open < c4.close /\ c5.close > c4.open
   THEN <<"Bullish Engulfing">> ELSE <<>>)
  \o (IF c4.close > c4.open /\ c5.close < c5.open
         /\ c5.open > c4.close /\ c5.close < c4.open
      THEN <<"Bearish Engulfing">> ELSE <<>>)

\* const [c1, _c2, _c3, c4, c5] = data.slice(-5): c5 is undefined unless
\* the series has 5 candles, and then nothing is pushed.
findCandlePatterns(d) ==
  LET last5 == slice(d, -5)
      c4 == last5[4]
      c5 == last5[5]
  IN IF Len(last5) < 5 THEN <<>>
     ELSE (IF isDoji(c5) THEN <<"Doji">> ELSE <<>>)
          \o (IF /\ c5.close > c5.open
                 /\ RLt(R(c5.high - c5.close), RMul(R(c5.close - c5.low), Rat(5, 10)))
                 /\ RLt(R(c5.close - c5.open), RMul(R(c5.close - c5.low), Rat(3, 10)))
              THEN <<"Hammer">> ELSE <<>>)
          \o (IF /\ c5.close < c5.open
                 /\ RGt(R(c5.high - c5.open), R((c5.open - c5.low) * 2))
                 /\ RLt(R(c5.open - c5.close), RMul(R(c5.high - c5.open), Rat(3, 10)))
              THEN <<"Shooting Star">> ELSE <<>>)
          \o candleEngulfing(c4, c5)

identifyCandlestickPatterns(d) ==
  LET lastCandle == d[Len(d)]
      prevCandle == d[Len(d) - 1]
      bodySize == Abs(lastCandle.close - lastCandle.open)
      lowerWick == Min2(lastCandle.open, lastCandle.close) - lastCandle.low
      upperWick == lastCandle.high - Max2(lastCandle.open, lastCandle.close)
  IN IF Len(d) < 2 THEN <<>>
     ELSE (IF isDoji(lastCandle) THEN <<"Doji">> ELSE <<>>)
          \o (IF lowerWick > bodySize * 2 /\ RLt(R(upperWick), RMul(R(bodySize), Rat(5, 10)))
              THEN <<"Hammer">> ELSE <<>>)
          \o (IF /\ lastCandle.open < prevCandle.close
                 /\ lastCandle.close > prevCandle.open
                 /\ prevCandle.close < prevCandle.open
              THEN <<"Bullish Engulfing">>
              ELSE IF /\ lastCandle.open > prevCandle.close
                      /\ lastCandle.close < prevCandle.open
                      /\ prevCandle.close > prevCandle.open
              THEN <<"Bearish Engulfing">>
              ELSE <<>>)

\* ---------------------------------------------------------- the full report

\* calculateMidpoint of calculateIchimoku; Math.max() of no numbers is
\* -Infinity and Math.min() of none Infinity, whose sum is NaN.
calculateMidpoint(s) ==
  IF Len(s) = 0 THEN RNaN ELSE Rat(IMax(highs(s)) + IMin(lows(s)), 2)

calculateIchimoku(d) ==
  LET tenkanSen == calculateMidpoint(slice(d, -9))
      kijunSen == calculateMidpoint(slice(d, -26))
  IN [tenkanSen |-> tenkanSen,
      kijunSen |-> kijunSen,
      senkouSpanA |-> NumDiv(NumAdd(tenkanSen, kijunSen), R(2)),
      senkouSpanB |-> calculateMidpoint(slice(d, -52)),
      chikouSpan |-> IF Len(d) >= 26 THEN R(d[Len(d) - 25].close)
                     ELSE "undefined"]

calculateFibonacciLevels(high, low) ==
  LET diff == high - low
  IN [level0 |-> R(low),
      level236 |-> RAdd(R(low), RMul(R(diff), Rat(236, 1000))),
      level382 |-> RAdd(R(low), RMul(R(diff), Rat(382, 1000))),
      level500 |-> RAdd(R(low), RMul(R(diff), Rat(1, 2))),
      level618 |-> RAdd(R(low), RMul(R(diff), Rat(618, 1000))),
      level786 |-> RAdd(R(low), RMul(R(diff), Rat(786, 1000))),
      level1000 |-> R(high)]

\* The loop of calculateEMA over candles whose close is any number, as the
\* candles built from the MACD value are.
RECURSIVE emaLoopOfNumbers(_, _, _, _)
emaLoopOfNumbers(xs, multiplier, i, ema) ==
  IF i >= Len(xs) THEN ema
  ELSE LET next == RAdd(RMul(RSub(xs[i + 1], ema), multiplier), ema)
       IN IF Computed(next) THEN emaLoopOfNumbers(xs, multiplier, i + 1, next)
          ELSE next

\* Mutant of calculateEMAOfNumbers: the average is seeded with 0 and the
\* loop starts at the first candle.
calculateEMAOfNumbers_SeedZero(xs, period) ==
  emaLoopOfNumbers(xs, Rat(2, period + 1), 0, R(0))

\* calculateEMA of a non-empty list of candles with the closes xs.
calculateEMAOfNumbers(xs, period) ==
  emaLoopOfNumbers(xs, Rat(2, period + 1), 1, xs[1])

calculateMACD(d) ==
  IF Len(d) = 0 THEN TypeError
  ELSE LET ema12 == calculateEMA(d, 12).value
           ema26 == calculateEMA(d, 26).value
           macdLine == RSub(ema12, ema26)
           signalLine == calculateEMAOfNumbers(<<macdLine>>, 9)
       IN Ok([macdLine |-> macdLine,
              signalLine |-> signalLine,
              histogram |-> RSub(macdLine, signalLine)])

\* The least number of candles for which data[data.length - 9 + i] is a
\* candle for every i of Array(9).
ReportMinCandles == 9

\* macdData reads .time of data[data.length - 9 + i], which is undefined for
\* i = 0 when the series has fewer than nine candles.
reportFault(d) == Len(d) < ReportMinCandles

\* return null.
Null == [kind |-> "null"]

\* The report calculateTechnicalIndicators returns for nine candles or
\* more, with the volatility it computed of the last 14.
technicalIndicatorsOf(d, volatility) ==
  LET latestCandle == d[Len(d)]
      previousCandle == d[Len(d) - 1]
      ema12 == calculateEMA(slice(d, -12), 12).value
      ema26 == calculateEMA(slice(d, -26), 26).value
      ema55 == calculateEMA(slice(d, -55), 55).value
      macd == RSub(ema12, ema26)
      macdData == [i \in 1..9 |-> macd]
      signalLine == calculateEMAOfNumbers(macdData, 9)
      rsi == calculateRSI(slice(d, -14), RSIDefaultPeriod)
      levels == findSupportResistanceAndOrderBlocks(slice(d, -100))
      momentum == calculateMomentum(slice(d, -14)).value
      atr == calculateATR(slice(d, -14), 14)
  IN Ok([price |->
           [current |-> R(latestCandle.close),
            change |-> RMul(Rat(latestCandle.close - previousCandle.close,
                                previousCandle.close), R(100)),
            volume |-> latestCandle.volume,
            high24h |-> IMax(highs(slice(d, -24))),
            low24h |-> IMin(lows(slice(d, -24)))],
         indicators |->
           [sma |-> [sma20 |-> calculateSMA(slice(d, -20), 20),
                     sma50 |-> calculateSMA(slice(d, -50), 50),
                     sma200 |-> calculateSMA(slice(d, -200), 200)],
            ema |-> [ema12 |-> ema12, ema26 |-> ema26, ema55 |-> ema55],
            macd |-> [value |-> macd,
                      signal |-> signalLine,
                      histogram |-> RSub(macd, signalLine)],
            rsi |-> [value |-> rsi,
                     divergence |-> detectDivergence(slice(d, -50), "rsi")],
            stochastic |-> calculateStochastic(slice(d, -14)),
            bollingerBands |->
              calculateBollingerBands(slice(d, -20), 20, 2),
            ichimoku |-> calculateIchimoku(slice(d, -52)),
            atr |-> atr],
         structure |->
           [support |-> levels.support,
            resistance |-> levels.resistance,
            orderBlocks |-> levels.orderBlocks,
            marketStructure |-> analyzeMarketStructure(slice(d, -100)).value,
            fibLevels |-> calculateFibonacciLevels(latestCandle.high,
                                                   latestCandle.low)],
         volume |->
           [profile |-> analyzeVolumeProfile(slice(d, -50)),
            cvd |-> calculateCVD(slice(d, -100)),
            deltaAnalysis |-> analyzeDeltaVolume(slice(d, -50))],
         patterns |->
           [candles |-> findCandlePatterns(slice(d, -5)),
            chart |-> findChartPatterns(slice(d, -100))],
         momentum |-> momentum,
         volatility |-> volatility,
         risk |-> calculateRiskLevel(rsi, volatility, momentum, atr)])

calculateTechnicalIndicators(absent, d) ==
  IF absent \/ Len(d) = 0 THEN Null
  ELSE IF reportFault(d) THEN TypeError
  ELSE technicalIndicatorsOf(d, calculateVolatility(slice(d, -14)))

\* The calls calculateTechnicalIndicators makes on slices of the series, in
\* order; the fault of a series under nine candles is thrown after the
\* sixth.  (calculateEMA of macdData runs on an array built here.)
technicalIndicatorsCalls ==
  << <<"calculateSMA", 20>>, <<"calculateSMA", 50>>, <<"calculateSMA", 200>>,
     <<"calculateEMA", 12>>, <<"calculateEMA", 26>>, <<"calculateEMA", 55>>,
     <<"calculateRSI", 14>>, <<"detectDivergence", 50>>,
     <<"calculateStochastic", 14>>, <<"calculateBollingerBands", 20>>,
     <<"calculateIchimoku", 52>>,
     <<"findSupportResistanceAndOrderBlocks", 100>>,
     <<"analyzeVolumeProfile", 50>>, <<"calculateCVD", 100>>,
     <<"calculateMomentum", 14>>, <<"calculateVolatility", 14>>,
     <<"calculateATR", 14>>, <<"analyzeMarketStructure", 100>>,
     <<"analyzeDeltaVolume", 50>>, <<"findCandlePatterns", 5>>,
     <<"findChartPatterns", 100>> >>

\* The series the caller passed, when calculateTechnicalIndicators returns
\* or throws.
seriesAfterTechnicalIndicators(absent, d) ==
  IF absent \/ Len(d) = 0 THEN d
  ELSE seriesAfterCalls(d,
                        IF reportFault(d) THEN SubSeq(technicalIndicatorsCalls, 1, 6)
                        ELSE technicalIndicatorsCalls,
                        1)


\* ------------------------------- AdvancedAnalysis: predictions and sentiment

\* Both paths of initialize() end with this.isInitialized = true: the try
\* block when the model was built, the catch block when building it threw.
initializedAfter(thrown) == IF thrown THEN TRUE ELSE TRUE

\* candles.length < 10 of predictNextMove.
PredictMinCandles == 10

\* if (!this.isInitialized || candles.length < 10)
predictGate(initialized, candles) ==
  ~initialized \/ Len(candles) < PredictMinCandles

\* The largest double below 1, 1 - 2^-53: the largest draw of Math.random().
LargestDraw == F64(1, BigSub(BigShl(<<1>>, 53), <<1>>), -53)

\* avgChange * (1 + (Math.random() * 0.2 - 0.1)) in doubles, for a draw.
expectedMoveOfDoubles(avgChange, draw) ==
  F64Mul(avgChange,
         F64Add(F64OfInt(1),
                F64Sub(F64Mul(draw, F64OfRat(Rat(1, 5))), F64OfRat(Rat(1, 10)))))

\* Math.random() returns any double of [0, 1), and the result does not
\* decrease in size as the draw grows: it lies between `from`, the result of
\* the draw 0, and `towards`, the result of the largest draw, both included.
\* The two are avgChange * 0.9 and avgChange * 1.1, held as the doubles the
\* program computes for these draws.
expectedMoveRange(avgChange, avgChangeOfDoubles) ==
  [from |-> RRounded(RMul(avgChange, Rat(9, 10)),
                     expectedMoveOfDoubles(avgChangeOfDoubles, F64Zero)),
   towards |-> RRounded(RMul(avgChange, Rat(11, 10)),
                        expectedMoveOfDoubles(avgChangeOfDoubles, LargestDraw))]

\* priceChanges in doubles.
priceChangesOfDoubles(prices) ==
  [i \in 1..(Len(prices) - 1) |->
     F64Div(F64Sub(F64OfInt(prices[i + 1]), F64OfInt(prices[i])),
            F64OfInt(prices[i]))]

\* Math.max(0, Math.min(1, raw)) for raw = 1 - volatility * 10, decided on
\* the double computed for raw: the result is 1, 0 or raw as that double.
confidenceOf(raw, rawOfDoubles) ==
  IF rawOfDoubles.kind = "nan" THEN NaN
  ELSE IF ~F64Lt(rawOfDoubles, F64OfInt(1)) THEN SurdOf(R(1))
  ELSE IF ~F64Gt(rawOfDoubles, F64Zero) THEN SurdOf(R(0))
  ELSE SurdRounded(IF SurdIsRational(raw) THEN SurdOf(SurdRational(raw))
                   ELSE raw,
                   rawOfDoubles)

\* The result of predictNextMove past its gate: the exact average change
\* and volatility, with the doubles the program computes for them.
predictionOf(avgChange, volatility, changes, avgChangeOfDoubles) ==
  [expectedMove |-> expectedMoveRange(avgChange, avgChangeOfDoubles),
   confidence |->
     confidenceOf(
       SurdSub(SurdOf(R(1)), SurdScale(R(10), volatility)),
       F64Sub(F64OfInt(1),
              F64Mul(F64Sqrt(F64Div(squaredDeviationsOfDoubles(
                                      changes, avgChangeOfDoubles, 1,
                                      Len(changes), F64Zero),
                                    F64OfInt(Len(changes)))),
                     F64OfInt(10))))]

\* expectedMove is the range of the results of the draws of Math.random();
\* the expectedMove 0 of the early return is the range from 0 towards 0.
predictNextMove(initialized, candles) ==
  IF predictGate(initialized, candles)
  THEN [expectedMove |-> expectedMoveRange(R(0), F64Zero),
        confidence |-> SurdOf(R(0))]
  ELSE LET prices == closes(slice(candles, -30))
           priceChanges == [i \in 1..(Len(prices) - 1) |->
                              Rat(prices[i + 1] - prices[i], prices[i])]
           avgChange == RDiv(RSum(priceChanges), R(Len(priceChanges)))
           volatility ==
             NumSqrt(RDiv(RSum([i \in 1..Len(priceChanges) |->
                                  RMul(RSub(priceChanges[i], avgChange),
                                       RSub(priceChanges[i], avgChange))]),
                          R(Len(priceChanges))))
       IN predictionOf(
            avgChange, volatility,
            priceChangesOfDoubles(closes(slice(candles, -30))),
            F64Div(sumOfDoubles(
                     priceChangesOfDoubles(closes(slice(candles, -30))),
                     1, Len(prices) - 1, F64Zero),
                   F64OfInt(Len(prices) - 1)))

\* candles.length < 10 of analyzeSentiment.
SentimentMinCandles == 10

\* Mutant of sentimentGate: a series of 9 candles is analysed.
sentimentGate_OffByOne(initialized, candles) ==
  ~initialized \/ Len(candles) < SentimentMinCandles - 1

\* if (!this.isInitialized || candles.length < 10)
sentimentGate(initialized, candles) ==
  ~initialized \/ Len(candles) < SentimentMinCandles

\* priceChange > 0.02 ? 'bullish' : priceChange < -0.02 ? 'bearish' :
\* 'neutral', on doubles; volumeChange likewise with 0.1.
sentimentOf(change, above, below) ==
  IF F64Gt(change, above) THEN "bullish"
  ELSE IF F64Lt(change, below) THEN "bearish"
  ELSE "neutral"

\* The three sentiments analyzeSentiment returns.
sentimentsOf(priceSentiment, volumeSentiment) ==
  [overall |->
     IF priceSentiment = "bullish" /\ volumeSentiment # "bearish"
     THEN "bullish"
     ELSE IF priceSentiment = "bearish" /\ volumeSentiment # "bullish"
     THEN "bearish"
     ELSE IF priceSentiment = "neutral" /\ volumeSentiment # "neutral"
     THEN volumeSentiment
     ELSE "neutral",
   price |-> priceSentiment,
   volume |-> volumeSentiment]

\* (recentVolume - avgVolume) / avgVolume
volumeChangeOf(recentVolume, avgVolume) ==
  F64Div(F64Sub(recentVolume, avgVolume), avgVolume)

\* The two changes are compared with 0.02 and 0.1 as doubles: a change the
\* rounding of its quotients leaves just above 0.1 is above it.
analyzeSentiment(initialized, candles) ==
  IF sentimentGate(initialized, candles)
  THEN [overall |-> "neutral", volume |-> "neutral", price |-> "neutral"]
  ELSE LET recentCandles == slice(candles, -20)
           prices == closes(recentCandles)
           volumes == [i \in 1..Len(recentCandles) |-> recentCandles[i].volume]
       IN sentimentsOf(
            sentimentOf(F64Div(F64OfInt(prices[Len(prices)] - prices[1]),
                               F64OfInt(prices[1])),
                        F64Div(F64OfInt(2), F64OfInt(100)),
                        F64Div(F64OfInt(-2), F64OfInt(100))),
            sentimentOf(volumeChangeOf(
                          F64Div(F64OfInt(ISum(slice(volumes, -5))),
                                 F64OfInt(5)),
                          F64Div(F64OfInt(ISum(volumes)),
                                 F64OfInt(Len(volumes)))),
                        F64Div(F64OfInt(1), F64OfInt(10)),
                        F64Div(F64OfInt(-1), F64OfInt(10))))

\* ------------------------------------------------------ the caller's series

ShapeA == [open |-> 10, high |-> 11, low |-> 7, close |-> 8, volume |-> 3]

ShapeB == [open |-> 9, high |-> 12, low |-> 9, close |-> 12, volume |-> 5]

ShapeP == [open |-> 8, high |-> 11, low |-> 7, close |-> 10, volume |-> 2]

ShapeQ == [open |-> 9, high |-> 9, low |-> 6, close |-> 6, volume |-> 4]

ShapeD == [open |-> 10, high |-> 11, low |-> 9, close |-> 10, volume |-> 1]

ShapeF == [open |-> 12, high |-> 12, low |-> 12, close |-> 12, volume |-> 6]

Shapes == {ShapeA, ShapeB, ShapeP, ShapeQ, ShapeD, ShapeF}

\* A candle of the given shape in time bucket t.
Candle(shape, t) ==
  [time |-> t, open |-> shape.open, high |-> shape.high, low |-> shape.low,
   close |-> shape.close, volume |-> shape.volume]

Periods == 1..MaxLen

\* The fields of a new AdvancedAnalysis.
InitAnalysis ==
  /\ isInitialized = FALSE
  /\ lastSentiment = "neutral"
  /\ lastConfidence = SurdOf(R(0))
  /\ lastSupportLevels = <<>>
  /\ lastResistanceLevels = <<>>

\* Two of the symbols and two of the timeframes the page offers, the
\* selected ones among them.
Symbols == {"BTCUSDT", "ETHUSDT"}

Timeframes == {"1h", "4h"}

\* queryKey: ['candleData', symbol, timeframe]
QueryKeys == Symbols \X Timeframes

\* The page before any fetch resolved: useState('BTCUSDT'), useState('1h'),
\* and a query that holds no series under any key.
InitialQuery ==
  [symbol |-> "BTCUSDT", timeframe |-> "1h",
   cache |-> [key \in QueryKeys |-> Null]]

\* data: chartData = []: the series the query holds under the key of the
\* symbol and timeframe selected, the empty series while it holds none.
chartData(q) ==
  LET held == q.cache[<<q.symbol, q.timeframe>>]
  IN IF held.kind = "null" THEN <<>> ELSE held.value

\* The state after construction: the page holds the empty series, no
\* fetch is under way and nothing has been called.  given is a history
\* variable, the series as the caller built it: no action of an analysis
\* assigns it.
Init ==
  /\ data = <<>>
  /\ dataAbsent = FALSE
  /\ fetches = <<>>
  /\ query = InitialQuery
  /\ given = data
  /\ op = "none"
  /\ arg = 0
  /\ res = Ok(0)
  /\ InitAnalysis

\* The series of candles of the shapes listed, in the time buckets 1, 2, ...
SeriesOf(shapes) == [i \in 1..Len(shapes) |-> Candle(shapes[i], i)]

\* Every list of at most n of the shapes.
ShapeLists(shapes, n) == UNION {[1..k -> shapes] : k \in 0..n}

\* Every series of at most n candles of the shapes.
SeriesUpTo(shapes, n) == {SeriesOf(list) : list \in ShapeLists(shapes, n)}

\* A series followed by candles of the shapes listed.
Extended(history, shapes) ==
  [i \in 1..(Len(history) + Len(shapes)) |->
     IF i <= Len(history) THEN history[i]
     ELSE Candle(shapes[i - Len(history)], i)]

\* The caller holds one of the series given; the engine is new and nothing
\* has been called.
InitWith(series) ==
  /\ data \in series
  /\ dataAbsent = FALSE
  /\ fetches = <<>>
  /\ query = InitialQuery
  /\ given = data
  /\ op = "none"
  /\ arg = 0
  /\ res = Ok(0)
  /\ InitAnalysis

\* The caller holds any series of at most MaxLen candles.
InitSeries == InitWith(SeriesUpTo(Shapes, MaxLen))

CallSMA ==
  \E period \in Periods :
    /\ op' = "calculateSMA"
    /\ arg' = period
    /\ res' = Ok(calculateSMA(data, period))
    /\ UNCHANGED <<data, dataAbsent, fetches, query, given, analysisVars>>

CallEMA ==
  \E period \in {0} \cup Periods :
    /\ op' = "calculateEMA"
    /\ arg' = period
    /\ res' = calculateEMA(data, period)
    /\ UNCHANGED <<data, dataAbsent, fetches, query, given, analysisVars>>

CallRSI ==
  \E period \in Periods :
    /\ op' = "calculateRSI"
    /\ arg' = period
    /\ res' = Ok(calculateRSI(data, period))
    /\ UNCHANGED <<data, dataAbsent, fetches, query, given, analysisVars>>

\* A call of a function of the series alone.
Call(name, result) ==
  /\ op' = name
  /\ arg' = 0
  /\ res' = result
  /\ UNCHANGED <<data, dataAbsent, fetches, query, given, analysisVars>>

CallStochastic == Call("calculateStochastic", Ok(calculateStochastic(data)))

BollingerPeriod == 20

BollingerStdDev == 2

CallBollingerBands ==
  Call("calculateBollingerBands",
       Ok(calculateBollingerBands(data, BollingerPeriod, BollingerStdDev)))

ATRPeriod == 14

\* The default period or a short one.
CallATR ==
  \E period \in Periods \cup {ATRPeriod} :
    /\ op' = "calculateATR"
    /\ arg' = period
    /\ res' = Ok(calculateATR(data, period))
    /\ UNCHANGED <<data, dataAbsent, fetches, query, given, analysisVars>>

CallMomentum == Call("calculateMomentum", calculateMomentum(data))

CallMarketStructure == Call("analyzeMarketStructure", analyzeMarketStructure(data))

CallOrderBlocks == Call("findOrderBlocks", Ok(findOrderBlocks(data)))

CallCVD == Call("calculateCVD", Ok(calculateCVD(data)))

CallDeltaVolume ==
  /\ op' = "analyzeDeltaVolume"
  /\ arg' = 0
  /\ res' = Ok(analyzeDeltaVolume(data))
  /\ data' = seriesAfterDeltaVolume(data)
  /\ UNCHANGED <<dataAbsent, fetches, query, given, analysisVars>>

ProfileLevels == 10

CallVolumeProfile ==
  /\ Len(data) > 0
  /\ Call("calculateVolumeProfile", Ok(calculateVolumeProfile(data, ProfileLevels)))

Next ==
  \/ CallSMA
  \/ CallEMA
  \/ CallRSI
  \/ CallStochastic
  \/ CallBollingerBands
  \/ CallATR
  \/ CallMomentum
  \/ CallMarketStructure
  \/ CallOrderBlocks
  \/ CallCVD
  \/ CallDeltaVolume
  \/ CallVolumeProfile

Spec == InitSeries /\ [][Next]_vars

\* ---------------------------------------------- SpecRSI: series of closes

\* Longest series of SpecRSI.
MaxRSILen == 5

RSICloses == {6, 8, 10, 12}

RSIPeriods == 1..3

\* A candle that opened, peaked, bottomed and closed at one price.
FlatShape(price) ==
  [open |-> price, high |-> price, low |-> price, close |-> price, volume |-> 1]

CallRSIOfCloses ==
  \E period \in RSIPeriods :
    /\ op' = "calculateRSI"
    /\ arg' = period
    /\ res' = Ok(calculateRSI(data, period))
    /\ UNCHANGED <<data, dataAbsent, fetches, query, given, analysisVars>>

\* The caller holds any series of at most MaxRSILen flat candles.
InitRSI ==
  InitWith(SeriesUpTo({FlatShape(price) : price \in RSICloses}, MaxRSILen))

NextRSI == CallRSIOfCloses

SpecRSI == InitRSI /\ [][NextRSI]_vars

\* ----------------------------- SpecStoch: a history and the candles after

\* Longest series of SpecStoch.
MaxStochLen == 18

StochWide == [open |-> 10, high |-> 20, low |-> 10, close |-> 12, volume |-> 1]

StochShapes == {FlatShape(10), FlatShape(20), StochWide}

\* n candles of one shape in the time buckets after those of d.
Run(d, shape, n) ==
  [i \in 1..(Len(d) + n) |-> IF i <= Len(d) THEN d[i] ELSE Candle(shape, i)]

\* The default period and a longer one.
LongRSIPeriods == {RSIDefaultPeriod, RSIDefaultPeriod + 3}

CallRSILong ==
  \E period \in LongRSIPeriods :
    /\ op' = "calculateRSI"
    /\ arg' = period
    /\ res' = Ok(calculateRSI(data, period))
    /\ UNCHANGED <<data, dataAbsent, fetches, query, given, analysisVars>>

\* The empty series, and every history of one shape, one candle short of
\* the stochastic window, followed by candles of any shape.
StochSeries ==
  {<<>>} \cup
  {Extended(Run(<<>>, shape, StochPeriod - 1), later) :
     shape \in StochShapes,
     later \in ShapeLists(StochShapes, MaxStochLen - (StochPeriod - 1))}

InitStoch == InitWith(StochSeries)

NextStoch ==
  \/ CallStochastic
  \/ CallRSILong

SpecStoch == InitStoch /\ [][NextStoch]_vars

\* ------------------------ SpecSummary: a long history and the candles after

\* Longest series of SpecSummary.
MaxSummaryLen == 201

SummaryCloses == {50, 100, 200}

SummaryShape(price) ==
  [open |-> price, high |-> price + 10, low |-> price - 10, close |-> price,
   volume |-> price \div 50]

\* Two runs of candles, 100 of one price and then 98 to 100 of another.
Histories ==
  {Run(Run(<<>>, SummaryShape(first), 100), SummaryShape(second), n) :
     first \in SummaryCloses, second \in SummaryCloses,
     n \in (SummaryMinCandles - 102)..(SummaryMinCandles - 100)}

\* Every history followed by candles of any price, up to MaxSummaryLen
\* candles in all.
SummarySeries ==
  UNION {{Extended(history, later) :
            later \in ShapeLists({SummaryShape(price) : price \in SummaryCloses},
                                 MaxSummaryLen - Len(history))} :
           history \in Histories}

\* The caller holds nothing (null), an empty series or a history with the
\* candles after it.
InitSummary ==
  /\ dataAbsent \in BOOLEAN
  /\ data \in (IF dataAbsent THEN {<<>>} ELSE {<<>>} \cup SummarySeries)
  /\ fetches = <<>>
  /\ query = InitialQuery
  /\ given = data
  /\ op = "none"
  /\ arg = 0
  /\ res = Ok(0)
  /\ InitAnalysis

CallSummary ==
  /\ op' = "getTechnicalAnalysisSummary"
  /\ arg' = 0
  /\ res' = Ok(getTechnicalAnalysisSummary(dataAbsent, data))
  /\ data' = seriesAfterSummary(dataAbsent, data)
  /\ UNCHANGED <<dataAbsent, fetches, query, given, analysisVars>>

NextSummary == CallSummary

SpecSummary == InitSummary /\ [][NextSummary]_vars

\* --------------------------------- SpecTrend: the trend rule on its inputs

TrendValues == {80, 90, 100, 110, 120}

ClassifyTrend ==
  \E close \in TrendValues, sma50 \in TrendValues, sma200 \in TrendValues :
    /\ op' = "determineTrend"
    /\ arg' = <<close, sma50, sma200>>
    /\ res' = Ok(determineTrend(R(close), R(sma50), R(sma200)))
    /\ UNCHANGED <<data, dataAbsent, fetches, query, given, analysisVars>>

NextTrend == ClassifyTrend

SpecTrend == Init /\ [][NextTrend]_vars

\* ------------------- SpecSignals: the summary, and its signal rules alone

SignalRSIs == {20, 30, 50, 70, 80}

SignalTrends ==
  {"Strong Bullish", "Bullish", "Strong Bearish", "Bearish", "Neutral"}

\* Pairs <<stochK, stochD>>.
SignalStochastics ==
  {<<10, 15>>, <<15, 10>>, <<20, 25>>, <<50, 50>>, <<80, 75>>, <<90, 85>>,
   <<85, 90>>}

SignalPrices == {80, 90, 100, 110, 120}

\* Bands of 100 - 2 * sqrt(25) = 90 and 100 + 2 * sqrt(25) = 110.
SignalBands ==
  [upper |-> Surd(R(100), R(2), R(25)),
   middle |-> R(100),
   lower |-> Surd(R(100), R(-2), R(25)),
   stdDev |-> Surd(R(0), R(1), R(25))]

\* The signal rules of getTechnicalAnalysisSummary applied to given values,
\* by a caller that holds no series.
ClassifySignals ==
  \E rsi \in SignalRSIs, trend \in SignalTrends, stoch \in SignalStochastics,
     lastPrice \in SignalPrices :
    /\ data = <<>>
    /\ op' = "signalsOf"
    /\ arg' = [rsi |-> R(rsi), trend |-> trend, stochK |-> R(stoch[1]),
               stochD |-> R(stoch[2]), lastPrice |-> R(lastPrice),
               bands |-> SignalBands]
    /\ res' = Ok(signalsOf(R(rsi), trend, R(stoch[1]), R(stoch[2]), R(lastPrice),
                           SignalBands))
    /\ UNCHANGED <<data, dataAbsent, fetches, query, given, analysisVars>>

NextSignals ==
  \/ CallSummary
  \/ ClassifySignals

SpecSignals == InitSummary /\ [][NextSignals]_vars

\* --------------------- SpecFrame: every analysis of one loaded history

\* 100 candles of price 100, two runs of 4 candles of other prices, 91 of
\* price 100 again and a latest candle: 200 candles with clusters of
\* highs and lows among the last 100.
FrameHistories ==
  {Run(Run(Run(Run(Run(<<>>, SummaryShape(100), 100), SummaryShape(first), 4),
               SummaryShape(second), 4), SummaryShape(100), 91),
       SummaryShape(latest), 1) :
     first \in SummaryCloses, second \in SummaryCloses, latest \in {100, 200}}

InitFrame == InitWith(FrameHistories)

\* initialize(): building the model either succeeds or throws into the
\* catch block; isInitialized is assigned on both paths.
Initialize ==
  \E thrown \in BOOLEAN :
    /\ op' = "initialize"
    /\ arg' = [thrown |-> thrown]
    /\ res' = Ok(0)
    /\ isInitialized' = initializedAfter(thrown)
    /\ UNCHANGED <<data, dataAbsent, fetches, query, given, lastSentiment, lastConfidence,
                   lastSupportLevels, lastResistanceLevels>>

CallKeyLevels ==
  /\ ~dataAbsent
  /\ op' = "findKeyLevels"
  /\ arg' = 0
  /\ res' = Ok(findKeyLevels(isInitialized, data))
  /\ data' = seriesAfterKeyLevels(isInitialized, data)
  /\ lastSupportLevels' =
       (IF keyLevelsGate(isInitialized, data) THEN lastSupportLevels
        ELSE res'.value.support)
  /\ lastResistanceLevels' =
       (IF keyLevelsGate(isInitialized, data) THEN lastResistanceLevels
        ELSE res'.value.resistance)
  /\ UNCHANGED <<dataAbsent, fetches, query, given, isInitialized, lastSentiment, lastConfidence>>

CallTechnicalIndicators ==
  /\ op' = "calculateTechnicalIndicators"
  /\ arg' = 0
  /\ res' = calculateTechnicalIndicators(dataAbsent, data)
  /\ data' = seriesAfterTechnicalIndicators(dataAbsent, data)
  /\ UNCHANGED <<dataAbsent, fetches, query, given, analysisVars>>

\* The four functions that build arrays or objects from the series, and
\* the indicators that run on a whole history (calculateEMA, calculateRSI
\* and analyzeVolumeProfile run on the slices the two reports take).
NextFrame ==
  \/ Initialize
  \/ CallKeyLevels
  \/ CallDeltaVolume
  \/ CallSummary
  \/ CallTechnicalIndicators
  \/ CallSMA
  \/ CallStochastic
  \/ CallBollingerBands
  \/ CallATR
  \/ CallMomentum
  \/ CallMarketStructure
  \/ CallOrderBlocks
  \/ CallCVD

SpecFrame == InitFrame /\ [][NextFrame]_vars

\* ----------------------------------- SpecRisk: the risk rule on its inputs

RiskRSIs == {20, 30, 50, 70, 80}

RiskVolatilities == {4, 5, 6}

RiskMomenta == {-11, -10, 0, 10, 11}

RiskATRs == {99, 100, 101}

ClassifyRisk ==
  \E rsi \in RiskRSIs, volatility \in RiskVolatilities,
     momentum \in RiskMomenta, atr \in RiskATRs :
    /\ op' = "calculateRiskLevel"
    /\ arg' = <<rsi, volatility, momentum, atr>>
    /\ res' = Ok(calculateRiskLevel(R(rsi), Surd(R(volatility), R(0), R(0)),
                                    R(momentum), R(atr)))
    /\ UNCHANGED <<data, dataAbsent, fetches, query, given, analysisVars>>

NextRisk == ClassifyRisk

SpecRisk == Init /\ [][NextRisk]_vars

\* ------------------------------ SpecStructure: candles that form swings

\* Longest series of SpecStructure.
MaxStructureLen == 4

\* A candle that reaches above and below all the others.
ShapeO == [open |-> 10, high |-> 13, low |-> 5, close |-> 9, volume |-> 2]

StructureShapes == {ShapeA, ShapeB, ShapeQ, ShapeO}

InitStructure == InitWith(SeriesUpTo(StructureShapes, MaxStructureLen))

NextStructure == CallMarketStructure

SpecStructure == InitStructure /\ [][NextStructure]_vars

\* ------------------------------------- SpecClusters: lists of plain prices

\* Longest price list of SpecClusters.
MaxPrices == 5

ClusterPrices == {1000, 1003, 1006}

PriceLists == UNION {[1..n -> ClusterPrices] : n \in 0..MaxPrices}

CallFindPriceClusters ==
  \E prices \in PriceLists :
    /\ op' = "findPriceClusters"
    /\ arg' = prices
    /\ res' = Ok(findPriceClusters(prices))
    /\ UNCHANGED <<data, dataAbsent, fetches, query, given, analysisVars>>

NextClusters == CallFindPriceClusters

SpecClusters == Init /\ [][NextClusters]_vars

\* ------------------------------------- SpecSMA: short series of closes

\* Longest series of SpecSMA.
MaxSMALen == 3

SMACloses == {10, 20, 30}

\* Periods up to one more than the longest series.
SMAPeriods == 1..(MaxSMALen + 1)

CallSMAOfCloses ==
  \E period \in SMAPeriods :
    /\ op' = "calculateSMA"
    /\ arg' = period
    /\ res' = Ok(calculateSMA(data, period))
    /\ UNCHANGED <<data, dataAbsent, fetches, query, given, analysisVars>>

\* The caller holds any series of at most MaxSMALen flat candles.
InitSMA ==
  InitWith(SeriesUpTo({FlatShape(price) : price \in SMACloses}, MaxSMALen))

NextSMA == CallSMAOfCloses

SpecSMA == InitSMA /\ [][NextSMA]_vars

\* ------------------- SpecBollinger: the bands under every parameter choice

\* Periods from 0 to one more than the longest series.
BollingerPeriods == 0..(MaxSMALen + 1)

BollingerMultipliers == {1, 2, 3}

CallBollingerBandsWith ==
  \E period \in BollingerPeriods, stdDev \in BollingerMultipliers :
    /\ op' = "calculateBollingerBands"
    /\ arg' = [period |-> period, stdDev |-> stdDev]
    /\ res' = Ok(calculateBollingerBands(data, period, stdDev))
    /\ UNCHANGED <<data, dataAbsent, fetches, query, given, analysisVars>>

NextBollinger == CallBollingerBandsWith

SpecBollinger == InitSMA /\ [][NextBollinger]_vars

\* ----------------------------------- SpecChart: candles that form patterns

\* Longest series of SpecChart.
MaxChartLen == 6

\* A shoulder, a shoulder within 2% of it, a dip between two shoulders and
\* a head.
ChartShoulder == [open |-> 95, high |-> 100, low |-> 90, close |-> 96, volume |-> 1]

ChartShoulderNear == [open |-> 95, high |-> 101, low |-> 91, close |-> 96, volume |-> 1]

ChartDip == [open |-> 94, high |-> 95, low |-> 93, close |-> 94, volume |-> 1]

ChartHead == [open |-> 95, high |-> 110, low |-> 80, close |-> 96, volume |-> 1]

ChartShapes == {ChartShoulder, ChartShoulderNear, ChartDip, ChartHead}

CallChartPatterns == Call("findChartPatterns", Ok(findChartPatterns(data)))

InitChart == InitWith(SeriesUpTo(ChartShapes, MaxChartLen))

NextChart == CallChartPatterns

SpecChart == InitChart /\ [][NextChart]_vars

\* ------------------------------ SpecCandles: candles of the pattern shapes

\* Longest series of SpecCandles.
MaxCandleLen == 5

\* Bullish, lower wick 3 bodies, upper wick 0.2 body.
CandleHammer == [open |-> 100, high |-> 112, low |-> 70, close |-> 110, volume |-> 1]

\* Bullish, lower wick 2.2 bodies, upper wick 0.2 body.
CandleHammerShort == [open |-> 100, high |-> 112, low |-> 78, close |-> 110, volume |-> 1]

\* Bearish, lower wick 3 bodies, upper wick 0.2 body.
CandleHammerBearish == [open |-> 110, high |-> 112, low |-> 70, close |-> 100, volume |-> 1]

\* Bearish with a long upper wick.
CandleStar == [open |-> 105, high |-> 140, low |-> 99, close |-> 100, volume |-> 1]

CandleShapes ==
  {CandleHammer, CandleHammerShort, CandleHammerBearish, CandleStar, FlatShape(100)}

CallCandlePatterns == Call("findCandlePatterns", Ok(findCandlePatterns(data)))

CallIdentifyPatterns ==
  Call("identifyCandlestickPatterns", Ok(identifyCandlestickPatterns(data)))

InitCandles == InitWith(SeriesUpTo(CandleShapes, MaxCandleLen))

NextCandles ==
  \/ CallCandlePatterns
  \/ CallIdentifyPatterns

SpecCandles == InitCandles /\ [][NextCandles]_vars

\* ------------------- SpecDivergence: a few closes, alone or after a history

\* Longest series of SpecDivergence that has no history.
MaxDivergenceLen == 3

\* The flat history: one candle short of the 14 that, with the candles that
\* follow it, fill the RSI window of 15.
DivergenceHistoryLen == RSIDefaultPeriod - 1

DivergenceCloses == {10, 11, 19, 20}

\* Every candle of the flat history.
DivergenceHistoryShape == FlatShape(12)

CallDetectDivergence ==
  \E type \in {"rsi", "macd"} :
    /\ op' = "detectDivergence"
    /\ arg' = type
    /\ res' = Ok(detectDivergence(data, type))
    /\ UNCHANGED <<data, dataAbsent, fetches, query, given, analysisVars>>

\* Every short series of flat candles, and the flat history followed by
\* flat candles, one fewer than a short series has.
DivergenceSeries ==
  SeriesUpTo({FlatShape(price) : price \in DivergenceCloses}, MaxDivergenceLen)
    \cup
  {Extended(Run(<<>>, DivergenceHistoryShape, DivergenceHistoryLen), later) :
     later \in ShapeLists({FlatShape(price) : price \in DivergenceCloses},
                          MaxDivergenceLen - 1)}

InitDivergence == InitWith(DivergenceSeries)

NextDivergence == CallDetectDivergence

SpecDivergence == InitDivergence /\ [][NextDivergence]_vars

\* --------------------- SpecReport: the full report of short and longer series

\* Longest series of SpecReport that has no history.
MaxReportLen == 3

\* The history: one candle short of the nine the report needs.
ReportHistoryLen == ReportMinCandles - 1

ReportShapes == {ShapeA, ShapeB, ShapeQ, ShapeD}

\* Every short series, and the history followed by candles, one fewer than
\* a short series has.
ReportSeries ==
  SeriesUpTo(ReportShapes, MaxReportLen)
    \cup
  {Extended(Run(<<>>, ShapeD, ReportHistoryLen), later) :
     later \in ShapeLists(ReportShapes, MaxReportLen - 1)}

\* The caller holds nothing (null) or one of the series.
InitReport ==
  /\ InitAnalysis
  /\ dataAbsent \in BOOLEAN
  /\ data \in (IF dataAbsent THEN {<<>>} ELSE ReportSeries)
  /\ fetches = <<>>
  /\ query = InitialQuery
  /\ given = data
  /\ op = "none"
  /\ arg = 0
  /\ res = Ok(0)

CallMACD ==
  /\ ~dataAbsent
  /\ Call("calculateMACD", calculateMACD(data))

NextReport ==
  \/ CallMACD
  \/ CallTechnicalIndicators

SpecReport == InitReport /\ [][NextReport]_vars


\* ------------------ SpecGate: the analyses of series around their minimums

\* Longest series of SpecGate.
MaxGateLen == 20

\* One candle short of each minimum, each minimum, and beyond.
GateLengths ==
  {PredictMinCandles - 1, PredictMinCandles, KeyLevelsMinCandles - 1}
    \cup (KeyLevelsMinCandles..MaxGateLen)

\* A flat run that ends in a candle of any price.
GateSeries ==
  {Run(Run(<<>>, SummaryShape(100), n - 1), SummaryShape(latest), 1) :
     n \in GateLengths, latest \in SummaryCloses}

\* The caller passes another series to the next call.
SupplyCandles ==
  /\ data' \in GateSeries \cup {<<>>}
  /\ data' # data
  /\ given' = data'
  /\ op' = "none"
  /\ arg' = 0
  /\ res' = Ok(0)
  /\ UNCHANGED <<dataAbsent, fetches, query, analysisVars>>

CallPredictNextMove ==
  /\ op' = "predictNextMove"
  /\ arg' = 0
  /\ res' = Ok(predictNextMove(isInitialized, data))
  /\ lastConfidence' =
       (IF predictGate(isInitialized, data) THEN lastConfidence
        ELSE res'.value.confidence)
  /\ UNCHANGED <<data, dataAbsent, fetches, query, given, isInitialized, lastSentiment,
                 lastSupportLevels, lastResistanceLevels>>

CallAnalyzeSentiment ==
  /\ op' = "analyzeSentiment"
  /\ arg' = 0
  /\ res' = Ok(analyzeSentiment(isInitialized, data))
  /\ lastSentiment' =
       (IF sentimentGate(isInitialized, data) THEN lastSentiment
        ELSE res'.value.overall)
  /\ UNCHANGED <<data, dataAbsent, fetches, query, given, isInitialized, lastConfidence,
                 lastSupportLevels, lastResistanceLevels>>

NextGate ==
  \/ SupplyCandles
  \/ Initialize
  \/ CallPredictNextMove
  \/ CallAnalyzeSentiment
  \/ CallKeyLevels

SpecGate == Init /\ [][NextGate]_vars

\* ------------------------------- SpecFetch: fetchCandleData and its awaits

\* limit=1000 of the request.
KlinesLimit == 1000

\* The URL of the request, by the parts the function fills in.
klinesUrl(symbol, timeframe) ==
  [symbol |-> symbol, interval |-> timeframe, limit |-> KlinesLimit]

\* Most calls of fetchCandleData under way at once.
MaxInFlight == 2

\* Most rows of a response.
MaxFetchLen == 2

\* The characters of the decimal digits, "0" first. A text is the sequence
\* of its characters.
DigitChars == <<"0", "1", "2", "3", "4", "5", "6", "7", "8", "9">>

IsDigit(c) == \E i \in 1..10 : DigitChars[i] = c

DigitOf(c) == (CHOOSE i \in 1..10 : DigitChars[i] = c) - 1

\* The place after the digits of text that start at place i.
RECURSIVE digitsEnd(_, _)
digitsEnd(text, i) ==
  IF i <= Len(text) /\ IsDigit(text[i]) THEN digitsEnd(text, i + 1) ELSE i

\* The whole number the digits of text from place i up to place j write,
\* after the digits that wrote acc.
RECURSIVE digitsValue(_, _, _, _)
digitsValue(text, i, j, acc) ==
  IF i >= j THEN acc
  ELSE digitsValue(text, i + 1, j, acc * 10 + DigitOf(text[i]))

\* parseFloat(text) for a text without sign or exponent: the number written
\* by the longest prefix of the form digits, digits.digits or .digits, and
\* NaN when the text starts with none.
parseFloat(text) ==
  LET wholeEnd == digitsEnd(text, 1)
      fractionEnd == IF wholeEnd <= Len(text) /\ text[wholeEnd] = "."
                     THEN digitsEnd(text, wholeEnd + 1)
                     ELSE wholeEnd
  IN IF wholeEnd = 1 /\ fractionEnd <= wholeEnd + 1 THEN RNaN
     ELSE RAdd(R(digitsValue(text, 1, wholeEnd, 0)),
               IF fractionEnd > wholeEnd + 1
               THEN Rat(digitsValue(text, wholeEnd + 1, fractionEnd, 0),
                        10^(fractionEnd - wholeEnd - 1))
               ELSE R(0))

\* A candle holds a whole number as an integer.
NumberOf(x) == IF x.d = 1 THEN x.n ELSE x

\* data.map((candle: any[]) => ({time: candle[0], open: parseFloat(candle[1]),
\* ...})): the fields after the sixth are not read.
candleOfRow(candle) ==
  [time |-> candle[1],
   open |-> NumberOf(parseFloat(candle[2])),
   high |-> NumberOf(parseFloat(candle[3])),
   low |-> NumberOf(parseFloat(candle[4])),
   close |-> NumberOf(parseFloat(candle[5])),
   volume |-> NumberOf(parseFloat(candle[6]))]

\* The decimal digits of a whole number n >= 0.
RECURSIVE decimalOf(_)
decimalOf(n) ==
  IF n < 10 THEN <<DigitChars[n + 1]>>
  ELSE decimalOf(n \div 10) \o <<DigitChars[(n % 10) + 1]>>

\* A whole price as the exchange writes it, with eight decimals.
KlineText(price) ==
  decimalOf(price) \o <<".", "0", "0", "0", "0", "0", "0", "0", "0">>

\* The row of a flat candle of volume 1: open time, open, high, low, close,
\* volume, close time.
KlineRow(time, price) ==
  <<time, KlineText(price), KlineText(price), KlineText(price),
    KlineText(price), KlineText(1), time>>

\* The closes of the candles the exchange has, oldest first.
FetchCloses == <<6, 8, 10>>

\* The bodies of the responses: the rows of the first candles, MaxFetchLen
\* of them or one fewer, as flat candles from time bucket 1; a JSON object,
\* as an error report is; a text that is not JSON.
Bodies ==
  {[kind |-> "array",
    rows |-> [i \in 1..n |-> KlineRow(i, FetchCloses[i])]] :
     n \in (MaxFetchLen - 1)..MaxFetchLen}
    \cup {[kind |-> "object"], [kind |-> "text"]}

\* What fetch() resolves to: response.ok, response.statusText and the body.
Responses ==
  {[ok |-> TRUE, statusText |-> "OK", body |-> body] : body \in Bodies}
    \cup {[ok |-> FALSE, statusText |-> "Too Many Requests",
           body |-> [kind |-> "object"]]}

\* The promise a call returned, not settled yet.
Pending == [kind |-> "pending"]

\* new Error(`Failed to fetch candlestick data: ${response.statusText}`)
FetchError(statusText) ==
  [kind |-> "throw", value |-> "Error",
   message |-> <<"Failed to fetch candlestick data: ", statusText>>]

\* response.json() rejects on a body that is not JSON.
SyntaxError == [kind |-> "throw", value |-> "SyntaxError"]

\* The calls without call i.
WithoutCall(i) == SubSeq(fetches, 1, i - 1) \o SubSeq(fetches, i + 1, Len(fetches))

\* The catch block logs the error and throws it again: the promise of the
\* call rejects with it and the call is over.  The query keeps the series
\* it holds.
FetchRejects(i, error) ==
  /\ fetches' = WithoutCall(i)
  /\ op' = "fetchCandleData"
  /\ arg' = fetches[i].url
  /\ res' = error
  /\ UNCHANGED <<data, dataAbsent, query, given, analysisVars>>

\* The calls for the same URL that have not resolved are under way.
UnderWay(url) ==
  \E i \in 1..Len(fetches) : fetches[i].url = url /\ fetches[i].pc # "resolved"

\* The calls after a new call for url: the query takes the outcome of the
\* latest call for a key only, so the calls under way for it are no longer
\* live (useQuery cancels a fetch it replaces).
Superseded(url) ==
  [i \in 1..Len(fetches) |->
     IF fetches[i].url = url /\ fetches[i].pc # "resolved"
     THEN [fetches[i] EXCEPT !.live = FALSE]
     ELSE fetches[i]]

\* queryFn: () => fetchCandleData(symbol, timeframe), with the symbol and
\* timeframe selected.  The call runs up to its first await: the request is
\* sent and the query receives a pending promise.  While a call for the key
\* is under way the query calls again only if it holds a series for the key
\* (refetch()); until then it waits for the call under way.
fetchCandleData ==
  LET url == klinesUrl(query.symbol, query.timeframe)
  IN /\ Len(fetches) < MaxInFlight
     /\ UnderWay(url) => query.cache[<<query.symbol, query.timeframe>>].kind # "null"
     /\ fetches' = Append(Superseded(url),
                          [pc |-> "fetch", url |-> url, live |-> TRUE])
     /\ op' = "fetchCandleData"
     /\ arg' = url
     /\ res' = Pending
     /\ UNCHANGED <<data, dataAbsent, query, given, analysisVars>>

\* fetch() settles for one of the calls under way, in any order. A response
\* that is ok takes the call to its second await, response.json(); a
\* response that is not, or a failure of the network, ends the call with
\* the error thrown.
FetchSettles ==
  \E i \in 1..Len(fetches) :
    /\ fetches[i].pc = "fetch"
    /\ \/ \E response \in Responses :
            IF response.ok
            THEN /\ fetches' = [fetches EXCEPT ![i] =
                                  [pc |-> "json", url |-> fetches[i].url,
                                   live |-> fetches[i].live,
                                   body |-> response.body]]
                 /\ UNCHANGED <<data, dataAbsent, query, given, op, arg, res,
                                analysisVars>>
            ELSE FetchRejects(i, FetchError(response.statusText))
       \/ FetchRejects(i, TypeError)

\* response.json() settles for one of the calls under way. The rows are
\* mapped to candles and the promise of the call resolves to them: the
\* whole response, not what it adds to a series held, and the function
\* touches no series.  A body that is not JSON, or not an array (data.map
\* is not a function), ends the call with the error thrown.
JsonSettles ==
  \E i \in 1..Len(fetches) :
    /\ fetches[i].pc = "json"
    /\ IF fetches[i].body.kind = "text" THEN FetchRejects(i, SyntaxError)
       ELSE IF fetches[i].body.kind # "array" THEN FetchRejects(i, TypeError)
       ELSE LET candles == [k \in 1..Len(fetches[i].body.rows) |->
                              candleOfRow(fetches[i].body.rows[k])]
            IN /\ fetches' = [fetches EXCEPT ![i] =
                                [pc |-> "resolved", url |-> fetches[i].url,
                                 live |-> fetches[i].live, value |-> candles]]
               /\ op' = "fetchCandleData"
               /\ arg' = fetches[i].url
               /\ res' = Ok(candles)
               /\ UNCHANGED <<data, dataAbsent, query, given, analysisVars>>

\* The query takes the series a call resolved to: it holds it under the
\* key the call was made for, in place of the series held there, unless the
\* call was replaced by a later one.  chartData is the series of the key
\* selected, so a call for another key leaves it as it is.
StoreSeries ==
  \E i \in 1..Len(fetches) :
    /\ fetches[i].pc = "resolved"
    /\ fetches' = WithoutCall(i)
    /\ query' =
         (IF fetches[i].live
          THEN [query EXCEPT
                  !.cache[<<fetches[i].url.symbol, fetches[i].url.interval>>] =
                    Ok(fetches[i].value)]
          ELSE query)
    /\ data' = chartData(query')
    /\ given' = data'
    /\ op' = "none"
    /\ arg' = 0
    /\ res' = Ok(0)
    /\ UNCHANGED <<dataAbsent, analysisVars>>

\* The page renders with the key selected in q: chartData is the series
\* held under it, or the empty series.
Selects(q) ==
  /\ query' = q
  /\ data' = chartData(q)
  /\ given' = data'
  /\ op' = "none"
  /\ arg' = 0
  /\ res' = Ok(0)
  /\ UNCHANGED <<dataAbsent, fetches, analysisVars>>

\* onChange={(e) => setSymbol(e.target.value)}
SelectSymbol ==
  \E symbol \in Symbols \ {query.symbol} :
    Selects([query EXCEPT !.symbol = symbol])

\* onChange={(e) => setTimeframe(e.target.value)}
SelectTimeframe ==
  \E timeframe \in Timeframes \ {query.timeframe} :
    Selects([query EXCEPT !.timeframe = timeframe])

\* Between the steps of the calls under way the page's other callbacks run
\* on the series it holds at that moment.
NextFetch ==
  \/ fetchCandleData
  \/ FetchSettles
  \/ JsonSettles
  \/ StoreSeries
  \/ SelectSymbol
  \/ SelectTimeframe
  \/ CallCVD

SpecFetch == Init /\ [][NextFetch]_vars


\* ------------------------------------------------------------------ claims

\* The shapes of the candles of the series, without their times.
ShapeOf(candle) ==
  [open |-> candle.open, high |-> candle.high, low |-> candle.low,
   close |-> candle.close, volume |-> candle.volume]

ShapesOf(d) == [i \in 1..Len(d) |-> ShapeOf(d[i])]

Range(s) == {s[i] : i \in 1..Len(s)}

StrictlyIncreasing(d) == \A i \in 1..(Len(d) - 1) : d[i].close < d[i + 1].close

StrictlyDecreasing(d) == \A i \in 1..(Len(d) - 1) : d[i].close > d[i + 1].close

\* C2: findOrderBlocks records a bullish block (top, bottom and time of the
\* bearish candle) for every pair of consecutive candles (A, B) with A
\* bearish, B bullish and B.close > A.high, and a bearish block for the
\* mirrored case; for the series A(10,8,11,7), B(9,12,12,9) it returns
\* exactly one bullish block with top 11, bottom 7 and the time of A.
C2_OrderBlockForEveryPair ==
  op = "findOrderBlocks" =>
    /\ \A i \in 1..(Len(data) - 1) :
         /\ (data[i].close < data[i].open /\ data[i + 1].close > data[i + 1].open
             /\ data[i + 1].close > data[i].high)
            => [type |-> "bullish", top |-> data[i].high, bottom |-> data[i].low,
                time |-> data[i].time] \in Range(res.value)
         /\ (data[i].close > data[i].open /\ data[i + 1].close < data[i + 1].open
             /\ data[i + 1].close < data[i].low)
            => [type |-> "bearish", top |-> data[i].high, bottom |-> data[i].low,
                time |-> data[i].time] \in Range(res.value)
    /\ ShapesOf(data) = <<ShapeA, ShapeB>>
       => res.value = <<[type |-> "bullish", top |-> 11, bottom |-> 7,
                         time |-> data[1].time]>>

\* C4: calculateVolumeProfile puts the volume of every candle of a non-empty
\* valid series into exactly one bucket, so the bucket totals sum to the
\* total volume of the series, valueArea is 70% of that total, and poc is
\* the lower bound of a bucket of maximum volume.
C4_ProfileKeepsAllVolume ==
  op = "calculateVolumeProfile" =>
    LET total == ISum([i \in 1..Len(data) |-> data[i].volume])
        low == IMin(lows(data))
        levelSize == Rat(IMax(highs(data)) - low, ProfileLevels)
        profile == res.value.profile
    IN /\ ISum(profile) = total
       /\ res.value.valueArea = RMul(R(total), Rat(7, 10))
       /\ \E k \in 1..ProfileLevels :
            /\ \A j \in 1..ProfileLevels : profile[j] <= profile[k]
            /\ res.value.poc = RAdd(R(low), RMul(R(k - 1), levelSize))

\* C5: for every series and every period >= 1, calculateRSI returns a value
\* between 0 and 100.
C5_RSIWithinBounds ==
  op = "calculateRSI" => RLe(R(0), res.value) /\ RLe(res.value, R(100))

\* C5 witness: an RSI strictly inside the range, computed with smoothing.
C5_Witness ==
  /\ op = "calculateRSI"
  /\ Len(data) > arg + 1
  /\ RLt(R(0), res.value)
  /\ RLt(res.value, R(100))
  /\ res.value # R(50)

LeafIndicators ==
  {"calculateSMA", "calculateEMA", "calculateRSI", "calculateStochastic",
   "calculateBollingerBands", "calculateATR", "calculateMomentum",
   "analyzeMarketStructure"}

\* C7: no leaf indicator throws on a series that is too short, the empty
\* series included: each returns a value.
C7_LeafIndicatorsNeverThrow ==
  op \in LeafIndicators => res.kind = "value"

\* C9: analyzeDeltaVolume returns one entry per candle in input order, each
\* with delta = +volume if close > open and -volume otherwise and with
\* cumulative[i] = cumulative[i-1] + delta[i]; for a non-empty series the
\* last cumulative equals calculateCVD of the series.
C9_DeltaVolumeEndsAtCVD ==
  op = "analyzeDeltaVolume" =>
    /\ Len(res.value) = Len(data)
    /\ \A i \in 1..Len(data) :
         /\ res.value[i].time = data[i].time
         /\ res.value[i].delta =
              (IF data[i].close > data[i].open THEN data[i].volume
               ELSE -data[i].volume)
         /\ res.value[i].cumulative =
              (IF i = 1 THEN 0 ELSE res.value[i - 1].cumulative) + res.value[i].delta
    /\ Len(data) > 0 => res.value[Len(data)].cumulative = calculateCVD(data)

\* C9 witness: a series of buying, selling and unchanged candles analysed.
C9_Witness ==
  /\ op = "analyzeDeltaVolume"
  /\ ShapesOf(data) = <<ShapeB, ShapeD, ShapeA>>
  /\ res.value[3].cumulative = 1
  /\ calculateCVD(data) = 1

\* C10: with at least period + 1 candles calculateRSI returns exactly 100
\* whenever the smoothed average loss is zero, in particular for strictly
\* increasing closes, and exactly 0 for strictly decreasing closes.
C10_RSIDegenerate ==
  (op = "calculateRSI" /\ Len(data) >= arg + 1) =>
    /\ rsiAverages(data, arg).avgLoss = R(0) => res.value = R(100)
    /\ StrictlyIncreasing(data) => res.value = R(100)
    /\ StrictlyDecreasing(data) => res.value = R(0)

\* C10 witness: a strictly decreasing series long enough to be smoothed.
C10_Witness ==
  /\ op = "calculateRSI"
  /\ Len(data) > arg + 1
  /\ StrictlyDecreasing(data)
  /\ res.value = R(0)

\* C10 also reaches a strictly increasing series.
C10_WitnessIncreasing ==
  /\ op = "calculateRSI"
  /\ Len(data) > arg + 1
  /\ StrictlyIncreasing(data)
  /\ res.value = R(100)

ReportFields ==
  {"lastPrice", "trend", "marketCondition", "riskLevel", "indicators", "levels",
   "signals"}

\* C1: getTechnicalAnalysisSummary returns the insufficient-data result (an
\* object with only an error field) when the input is absent or has fewer
\* than 200 candles, and a populated report without an error field for
\* every series of 200 or more candles.
C1_SummaryGating ==
  op = "getTechnicalAnalysisSummary" =>
    /\ res.kind = "value"
    /\ IF dataAbsent \/ Len(data) < 200
       THEN DOMAIN res.value = {"error"}
       ELSE DOMAIN res.value = ReportFields

\* C1 witness: a report for a series of exactly 200 candles.
C1_Witness ==
  /\ op = "getTechnicalAnalysisSummary"
  /\ ~dataAbsent
  /\ Len(data) = 200
  /\ DOMAIN res.value = ReportFields
  /\ res.value.lastPrice = R(data[200].close)

\* C1 also reaches the refusal of 199 candles.
C1_Witness199 ==
  /\ op = "getTechnicalAnalysisSummary"
  /\ Len(data) = 199
  /\ DOMAIN res.value = {"error"}

\* C3: findPriceClusters assigns every price to exactly one cluster (the
\* first within 0.5% of it, else a new one), so the cluster counts sum to
\* the number of prices, and a level is returned exactly when its cluster
\* has more than 3 members.
C3_EveryPriceInOneCluster ==
  op = "findPriceClusters" =>
    LET clusters == priceClusters(arg, Len(arg))
    IN /\ ISum([i \in 1..Len(Ascending(DOMAIN clusters)) |->
                  clusters[Ascending(DOMAIN clusters)[i]]]) = Len(arg)
       /\ Range(res.value) = {c \in DOMAIN clusters : clusters[c] > 3}

\* C6: for candles with low <= close <= high calculateStochastic returns k
\* and d between 0 and 100, and a 14-candle window whose highest high equals
\* its lowest low contributes a raw %K of 50.
C6_StochasticWithinBounds ==
  op = "calculateStochastic" =>
    /\ RLe(R(0), res.value.k) /\ RLe(res.value.k, R(100))
    /\ RLe(R(0), res.value.d) /\ RLe(res.value.d, R(100))
    /\ \A i \in 1..(Len(data) - 13) :
         IMax(highs(SubSeq(data, i, i + 13))) = IMin(lows(SubSeq(data, i, i + 13)))
           => stochKValues(data)[i] = R(50)

\* C6 witness: both lines computed from a series with a flat window and
\* with windows that are not flat.
C6_Witness ==
  /\ op = "calculateStochastic"
  /\ Len(data) >= 18
  /\ IMax(highs(SubSeq(data, 1, 14))) = IMin(lows(SubSeq(data, 1, 14)))
  /\ res.value.k # R(50)
  /\ res.value.d # R(50)
  /\ res.value.k # res.value.d

\* The label the precedence of C8 gives.
C8_Precedence(close, sma50, sma200) ==
  LET a == close > sma50
      b == close > sma200
      c == sma50 > sma200
  IN IF a /\ b /\ c THEN "Strong Bullish"
     ELSE IF a /\ c THEN "Bullish"
     ELSE IF ~a /\ ~b /\ ~c THEN "Strong Bearish"
     ELSE IF ~a /\ ~c THEN "Bearish"
     ELSE "Neutral"

\* C8: the trend label is one of the five labels and is chosen by the
\* precedence Strong Bullish (a, b, c), Bullish (a, c), Strong Bearish (none
\* of a, b, c), Bearish (neither a nor c), Neutral, over a = close > SMA50,
\* b = close > SMA200, c = SMA50 > SMA200; close 110, SMA50 100, SMA200 90
\* gives Strong Bullish.
C8_TrendPrecedence ==
  op = "determineTrend" =>
    /\ res.value \in {"Strong Bullish", "Bullish", "Strong Bearish", "Bearish",
                      "Neutral"}
    /\ res.value = C8_Precedence(arg[1], arg[2], arg[3])
    /\ arg = <<110, 100, 90>> => res.value = "Strong Bullish"

\* C8 witness: the scenario close 110, SMA50 100, SMA200 90 classified.
C8_Witness ==
  /\ op = "determineTrend"
  /\ arg = <<110, 100, 90>>
  /\ res.value = "Strong Bullish"

\* C11: calculateRSI returns exactly 50 for every series with fewer than
\* period + 1 candles (fewer than 15 with the default period 14), whatever
\* the closes are.
C11_RSIDefaultsTo50 ==
  (op = "calculateRSI" /\ Len(data) < arg + 1) => res.value = R(50)

\* C11 witness: 14 candles that do not all close alike, at the default period.
C11_Witness ==
  /\ op = "calculateRSI"
  /\ arg = RSIDefaultPeriod
  /\ Len(data) = 14
  /\ \E i \in 1..13 : data[i].close # data[i + 1].close
  /\ res.value = R(50)

\* C12: calculateSMA(series, period) is the arithmetic mean of the last
\* `period` closes when the series has at least `period` candles (closes
\* 10, 20, 30 with period 3 give 20), the last close when the series is
\* non-empty but shorter, and 0 for the empty series.
C12_SMAIsMeanOfLastCloses ==
  op = "calculateSMA" =>
    LET n == Len(data)
        lastCloses == [i \in 1..arg |-> data[n - arg + i].close]
    IN /\ n >= arg => RMul(res.value, R(arg)) = R(ISum(lastCloses))
       /\ (n > 0 /\ n < arg) => res.value = R(data[n].close)
       /\ n = 0 => res.value = R(0)
       /\ (closes(data) = <<10, 20, 30>> /\ arg = 3) => res.value = R(20)

\* C12 witness: the mean of the closes 10, 20, 30 over period 3.
C12_Witness ==
  /\ op = "calculateSMA"
  /\ closes(data) = <<10, 20, 30>>
  /\ arg = 3
  /\ res.value = R(20)

\* C12 also reaches a mean over a proper suffix of the series.
C12_WitnessSuffix ==
  /\ op = "calculateSMA"
  /\ closes(data) = <<30, 10, 20>>
  /\ arg = 2
  /\ res.value = R(15)

\* C13: calculateStochastic returns exactly {k: 50, d: 50} for every series
\* of fewer than 18 candles, those of 16 or 17 candles included, for which
\* a K line value exists but no D value.
C13_StochasticDefaultsTo50 ==
  (op = "calculateStochastic" /\ Len(data) < 18) =>
    res.value = [k |-> R(50), d |-> R(50)]

\* C13 witness: 17 candles whose latest smoothed K is not 50.
C13_Witness ==
  /\ op = "calculateStochastic"
  /\ Len(data) = 17
  /\ LET smoothedK == stochSmooth(stochKValues(data), StochKPeriod)
     IN Len(smoothedK) = 2 /\ smoothedK[2] # R(50)
  /\ res.value = [k |-> R(50), d |-> R(50)]

\* C15: for candles with low <= high and a period > 0, calculateATR returns
\* a value >= 0: the sum of the true ranges max(high - low, |high -
\* prevClose|, |low - prevClose|) of all consecutive pairs divided by the
\* period (not by the number of true ranges), and 0 for 0 or 1 candles.
C15_ATRIsSumOfTrueRangesOverPeriod ==
  op = "calculateATR" =>
    LET n == Len(data)
        tr(j) == Max2(Max2(data[j].high - data[j].low,
                           Abs(data[j].high - data[j - 1].close)),
                      Abs(data[j].low - data[j - 1].close))
    IN /\ RLe(R(0), res.value)
       /\ RMul(res.value, R(arg)) = R(ISum([j \in 1..(n - 1) |-> tr(j + 1)]))
       /\ n <= 1 => res.value = R(0)

\* C15 witness: a candle wholly below the previous close, so that the
\* largest distance is the one from its low; two true ranges over period 3.
C15_Witness ==
  /\ op = "calculateATR"
  /\ ShapesOf(data) = <<ShapeB, ShapeQ, ShapeA>>
  /\ arg = 3
  /\ res.value = Rat(11, 3)

\* C16: for a series of a single candle calculateEMA returns that candle's
\* close for every period, an omitted period included.
C16_EMAOfOneCandleIsItsClose ==
  (op = "calculateEMA" /\ Len(data) = 1) => res = Ok(R(data[1].close))

\* C16 witness: one candle averaged with a period of 3.
C16_Witness ==
  /\ op = "calculateEMA"
  /\ Len(data) = 1
  /\ arg = 3
  /\ res = Ok(R(data[1].close))

\* C16 also reaches the omitted period.
C16_WitnessOmitted ==
  /\ op = "calculateEMA"
  /\ Len(data) = 1
  /\ arg = 0
  /\ res = Ok(R(data[1].close))

\* The number of risk conditions of C18 that hold.
C18_Conditions(rsi, volatility, momentum, atr) ==
  (IF rsi > 70 \/ rsi < 30 THEN 1 ELSE 0)
  + (IF volatility > 5 THEN 1 ELSE 0)
  + (IF Abs(momentum) > 10 THEN 1 ELSE 0)
  + (IF atr > 100 THEN 1 ELSE 0)

\* C18: calculateRiskLevel counts four conditions (rsi > 70 or rsi < 30,
\* volatility > 5, |momentum| > 10, atr > 100) and returns the high label
\* exactly when at least three hold, the medium label when one or two hold
\* and the low label only when none holds; the values rsi = 30, rsi = 70,
\* volatility = 5, |momentum| = 10 and atr = 100 do not count.
C18_RiskLevelCountsConditions ==
  op = "calculateRiskLevel" =>
    LET k == C18_Conditions(arg[1], arg[2], arg[3], arg[4])
    IN /\ res.value = RiskHigh <=> k >= 3
       /\ res.value = RiskMedium <=> k \in {1, 2}
       /\ res.value = RiskLow <=> k = 0
       /\ (arg[1] \in {30, 70} /\ arg[2] = 5 /\ Abs(arg[3]) = 10 /\ arg[4] = 100)
          => res.value = RiskLow

\* C18 witness: every input on its boundary, rated low.
C18_Witness ==
  /\ op = "calculateRiskLevel"
  /\ arg = <<70, 5, -10, 100>>
  /\ res.value = RiskLow

\* C18 also reaches a high rating on three conditions.
C18_WitnessHigh ==
  /\ op = "calculateRiskLevel"
  /\ arg = <<20, 6, 11, 100>>
  /\ res.value = RiskHigh

\* C20: analyzeMarketStructure reports, in series order, a swing high for
\* every interior candle whose high strictly exceeds both neighbours' highs
\* and a swing low for every interior candle whose low is strictly below
\* both neighbours' lows (a candle that satisfies both included), and never
\* reports the first or the last candle.
C20_SwingForEveryExtremum ==
  (op = "analyzeMarketStructure" /\ res.kind = "value") =>
    LET swings == res.value.swingPoints
        n == Len(data)
    IN /\ \A j \in 2..(n - 1) :
            /\ (data[j].high > data[j - 1].high /\ data[j].high > data[j + 1].high)
               => [type |-> "high", price |-> data[j].high, time |-> data[j].time]
                    \in Range(swings)
            /\ (data[j].low < data[j - 1].low /\ data[j].low < data[j + 1].low)
               => [type |-> "low", price |-> data[j].low, time |-> data[j].time]
                    \in Range(swings)
       /\ \A i \in 1..Len(swings) :
            n > 0 => swings[i].time \notin {data[1].time, data[n].time}
       /\ \A i \in 1..(Len(swings) - 1) : swings[i].time <= swings[i + 1].time

\* The order in which the signals are tested.
C19_Order ==
  <<"RSI Oversold - Potential Buy",
    "RSI Overbought - Potential Sell",
    "Stochastic Oversold - Watch for Bull Cross",
    "Stochastic Overbought - Watch for Bear Cross",
    "Price below Lower Bollinger Band - Potential Buy",
    "Price above Upper Bollinger Band - Potential Sell">>

\* The place of a signal in C19_Order, 0 if it has none.
C19_Place(signal) ==
  IF signal \in Range(C19_Order)
  THEN CHOOSE k \in 1..Len(C19_Order) : C19_Order[k] = signal
  ELSE 0

\* C19 about a list of signals and the values it was derived from.
C19_Rules(signals, rsi, trend, lastPrice, bands) ==
  /\ \A i \in 1..Len(signals) : C19_Place(signals[i]) > 0
  /\ \A i \in 1..(Len(signals) - 1) :
       C19_Place(signals[i]) < C19_Place(signals[i + 1])
  /\ C19_Order[1] \in Range(signals)
       <=> (RLt(rsi, R(30)) /\ trend # "Strong Bearish")
  /\ C19_Order[2] \in Range(signals)
       <=> (RGt(rsi, R(70)) /\ trend # "Strong Bullish")
  /\ C19_Order[5] \in Range(signals) <=> SurdGt(bands.lower, lastPrice)
  /\ C19_Order[6] \in Range(signals) <=> SurdLt(bands.upper, lastPrice)

\* C19: the signals of getTechnicalAnalysisSummary are a duplicate-free
\* subsequence of the fixed order (RSI Oversold, RSI Overbought, Stochastic
\* Oversold, Stochastic Overbought, below the lower band, above the upper
\* band), and each is present exactly when its own rule holds, whatever the
\* others: RSI Oversold iff rsi < 30 and the trend is not Strong Bearish,
\* RSI Overbought iff rsi > 70 and the trend is not Strong Bullish, the
\* lower-band buy iff last close < lower band, the upper-band sell iff last
\* close > upper band.
C19_SignalsFollowTheirRules ==
  /\ (op = "getTechnicalAnalysisSummary" /\ "signals" \in DOMAIN res.value)
       => C19_Rules(res.value.signals, res.value.indicators.rsi, res.value.trend,
                    res.value.lastPrice, res.value.indicators.bollingerBands)
  /\ op = "signalsOf"
       => C19_Rules(res.value, arg.rsi, arg.trend, arg.lastPrice, arg.bands)

\* C19 witness: a low RSI and a price under the lower band give two signals.
C19_Witness ==
  /\ op = "signalsOf"
  /\ arg.rsi = R(20)
  /\ arg.lastPrice = R(80)
  /\ res.value = <<C19_Order[1], C19_Order[5]>>

\* C19 also reaches a report whose last close fell under the lower band.
C19_WitnessReport ==
  /\ op = "getTechnicalAnalysisSummary"
  /\ "signals" \in DOMAIN res.value
  /\ C19_Order[5] \in Range(res.value.signals)

\* What the call of an analysis returns on a series.
C17_ResultOn(name, argument, initialized, series) ==
  CASE name = "findKeyLevels" -> Ok(findKeyLevels(initialized, series))
    [] name = "analyzeDeltaVolume" -> Ok(analyzeDeltaVolume(series))
    [] name = "getTechnicalAnalysisSummary" ->
         Ok(getTechnicalAnalysisSummary(FALSE, series))
    [] name = "calculateTechnicalIndicators" ->
         calculateTechnicalIndicators(FALSE, series)
    [] name = "calculateSMA" -> Ok(calculateSMA(series, argument))
    [] name = "calculateStochastic" -> Ok(calculateStochastic(series))
    [] name = "calculateBollingerBands" ->
         Ok(calculateBollingerBands(series, BollingerPeriod, BollingerStdDev))
    [] name = "calculateATR" -> Ok(calculateATR(series, argument))
    [] name = "calculateMomentum" -> calculateMomentum(series)
    [] name = "analyzeMarketStructure" -> analyzeMarketStructure(series)
    [] name = "findOrderBlocks" -> Ok(findOrderBlocks(series))
    [] name = "calculateCVD" -> Ok(calculateCVD(series))

\* C17: no analysis function modifies the series it is given: after any
\* sequence of calls (getTechnicalAnalysisSummary,
\* calculateTechnicalIndicators, analyzeDeltaVolume and findKeyLevels with
\* its sorting included) the series has the length, the order and the
\* candle values it was built with, and a call made after any others returns
\* what it returns on the series as it was built.
C17_SeriesNeverModified ==
  /\ data = given
  /\ op \notin {"none", "initialize"} =>
       res = C17_ResultOn(op, arg, isInitialized, given)

\* C17 witness: calculateTechnicalIndicators has passed data.slice(-50) to
\* analyzeDeltaVolume after findKeyLevels had sorted three support levels,
\* and the series is the history as it was built.
C17_Witness ==
  /\ op = "calculateTechnicalIndicators"
  /\ Len(res.value.volume.deltaAnalysis) = 50
  /\ res.value.volume.deltaAnalysis[50].cumulative # 0
  /\ Len(lastSupportLevels) = 3
  /\ lastSupportLevels[1] > lastSupportLevels[2]
  /\ data \in FrameHistories

\* C17 also reaches findKeyLevels having sorted three support levels into
\* descending order.
C17_WitnessKeyLevels ==
  /\ op = "findKeyLevels"
  /\ Len(res.value.support) = 3
  /\ res.value.support[1] > res.value.support[2]
  /\ res.value.support[2] > res.value.support[3]
  /\ data \in FrameHistories

\* C17 also reaches the delta volume of the whole history.
C17_WitnessDeltaVolume ==
  /\ op = "analyzeDeltaVolume"
  /\ Len(res.value) = 200
  /\ res.value[200].cumulative = calculateCVD(data)
  /\ data \in FrameHistories

\* s and t are the same number, the roundings of the doubles held for them
\* apart; NaN is no number.
C14_SameNumber(s, t) ==
  IF s.nan \/ t.nan THEN FALSE
  ELSE IF s.a.d = 0 \/ t.a.d = 0 THEN s.a = t.a
  ELSE ~SurdAbove(SurdSub(s, t), R(0)) /\ ~SurdBelow(SurdSub(s, t), R(0))

\* C14: for every series and every parameter choice the bands of
\* calculateBollingerBands are symmetric, upper - middle = middle - lower =
\* stdDevMultiplier * stdDev, and middle is calculateSMA(series, period).
C14_BandsSymmetric ==
  op = "calculateBollingerBands" =>
    LET bands == res.value
        above == SurdSub(bands.upper, SurdOf(bands.middle))
        below == SurdSub(SurdOf(bands.middle), bands.lower)
    IN /\ C14_SameNumber(above, below)
       /\ C14_SameNumber(above, SurdScale(R(arg.stdDev), bands.stdDev))
       /\ NumEq(bands.middle, calculateSMA(data, arg.period))

\* C21: analyzeMarketStructure returns trend "neutral" exactly when fewer
\* than two swing points were detected, in particular for every series of
\* fewer than 4 candles; otherwise "uptrend" exactly when the price of the
\* latest swing point is strictly greater than that of the swing point
\* before it, whatever their types, and "downtrend" otherwise.
C21_TrendFollowsLastTwoSwings ==
  op = "analyzeMarketStructure" =>
    /\ res.kind = "value"
    /\ LET swings == res.value.swingPoints
           n == Len(swings)
       IN /\ res.value.trend = "neutral" <=> n < 2
          /\ Len(data) < 4 => res.value.trend = "neutral"
          /\ n >= 2 =>
               /\ res.value.trend = "uptrend" <=> swings[n].price > swings[n - 1].price
               /\ res.value.trend = "downtrend" <=> swings[n].price <= swings[n - 1].price

\* The labels of findChartPatterns in the order they are pushed.
C22_Order == <<"Head and Shoulders", "Double Top", "Double Bottom">>

\* C22: findChartPatterns returns each label at most once, in the order
\* Head and Shoulders, Double Top, Double Bottom, and a label exactly when
\* some window of the n-candle series matches it: Head and Shoulders for an
\* i with i + 4 <= n - 1, Double Top and Double Bottom for an i with
\* i + 2 <= n - 1.
C22_PatternIffSomeWindowMatches ==
  op = "findChartPatterns" =>
    LET patterns == res.value
        n == Len(data)
        hs == highs(data)
        ls == lows(data)
    IN /\ patterns = SelectSeq(C22_Order, LAMBDA label : label \in Range(patterns))
       /\ "Head and Shoulders" \in Range(patterns) <=>
            \E i \in 0..(n - 5) :
              /\ hs[i + 3] > hs[i + 1]
              /\ hs[i + 3] > hs[i + 5]
              /\ RLt(Rat(Abs(hs[i + 1] - hs[i + 5]), hs[i + 1]), Rat(2, 100))
       /\ "Double Top" \in Range(patterns) <=>
            \E i \in 0..(n - 3) :
              /\ RLt(Rat(Abs(hs[i + 1] - hs[i + 3]), hs[i + 1]), Rat(2, 100))
              /\ hs[i + 2] < Min2(hs[i + 1], hs[i + 3])
       /\ "Double Bottom" \in Range(patterns) <=>
            \E i \in 0..(n - 3) :
              /\ RLt(Rat(Abs(ls[i + 1] - ls[i + 3]), ls[i + 1]), Rat(2, 100))
              /\ ls[i + 2] > Max2(ls[i + 1], ls[i + 3])

\* The Hammer of the specification: a bullish close, a lower wick of more
\* than 2 bodies and an upper wick of less than half a body.
C23_IsHammer(c) ==
  LET body == Abs(c.close - c.open)
      lowerWick == Min2(c.open, c.close) - c.low
      upperWick == c.high - Max2(c.open, c.close)
  IN /\ c.close > c.open
     /\ lowerWick > 2 * body
     /\ 2 * upperWick < body

\* C23: findCandlePatterns and identifyCandlestickPatterns both emit
\* "Hammer" for the latest candle exactly when that candle is the Hammer of
\* the specification.
C23_HammerIffWicksAndBullishClose ==
  op \in {"findCandlePatterns", "identifyCandlestickPatterns"} =>
    ("Hammer" \in Range(res.value) <=>
       Len(data) >= 1 /\ C23_IsHammer(data[Len(data)]))

\* The one divergence of a price direction and an indicator direction
\* (1 rose, -1 fell, 0 neither).
C24_Divergence(price, indicator) ==
  IF price = -1 /\ indicator = 1 THEN <<[type |-> "regular", direction |-> "bullish"]>>
  ELSE IF price = 1 /\ indicator = -1 THEN <<[type |-> "regular", direction |-> "bearish"]>>
  ELSE IF price = 1 /\ indicator = 1 THEN <<[type |-> "hidden", direction |-> "bullish"]>>
  ELSE IF price = -1 /\ indicator = -1 THEN <<[type |-> "hidden", direction |-> "bearish"]>>
  ELSE <<>>

\* C24: detectDivergence returns at most one divergence, determined by the
\* direction of the last two closes and of the last two indicator values:
\* regular bullish iff price fell and indicator rose, regular bearish iff
\* price rose and indicator fell, hidden bullish iff both rose, hidden
\* bearish iff both fell; and the empty list when the closes are equal, the
\* indicator values are equal or the series has fewer than 2 candles.
C24_OneDivergenceByDirections ==
  op = "detectDivergence" =>
    LET n == Len(data)
        last == divergenceIndicatorAt(data, arg, n - 1)
        previous == divergenceIndicatorAt(data, arg, n - 2)
    IN /\ Len(res.value) <= 1
       /\ n < 2 => res.value = <<>>
       /\ n >= 2 =>
            res.value = C24_Divergence(Sign(data[n].close - data[n - 1].close),
                                       Sign(RSub(last, previous).n))

\* C24 witness: the close fell while the RSI rose, a regular bullish
\* divergence.
C24_Witness ==
  /\ op = "detectDivergence"
  /\ arg = "rsi"
  /\ Len(data) >= 2
  /\ data[Len(data)].close < data[Len(data) - 1].close
  /\ res.value = <<[type |-> "regular", direction |-> "bullish"]>>

\* C24 also reaches a regular bearish divergence of the EMA difference.
C24_WitnessBearish ==
  /\ op = "detectDivergence"
  /\ arg = "macd"
  /\ res.value = <<[type |-> "regular", direction |-> "bearish"]>>

\* C24 also reaches equal closes with a moving indicator, and no divergence.
C24_WitnessEqualCloses ==
  /\ op = "detectDivergence"
  /\ Len(data) >= 2
  /\ data[Len(data)].close = data[Len(data) - 1].close
  /\ divergenceIndicatorAt(data, arg, Len(data) - 1)
       # divergenceIndicatorAt(data, arg, Len(data) - 2)
  /\ res.value = <<>>

\* C25: for every non-empty series calculateMACD returns signalLine equal to
\* macdLine and histogram 0; and every report of
\* calculateTechnicalIndicators has macd.signal equal to macd.value and
\* macd.histogram 0.
C25_SignalIsTheMACDValue ==
  /\ (op = "calculateMACD" /\ Len(data) > 0) =>
       /\ res.kind = "value"
       /\ res.value.signalLine = res.value.macdLine
       /\ res.value.histogram = R(0)
  /\ (op = "calculateTechnicalIndicators" /\ res.kind = "value") =>
       /\ res.value.indicators.macd.signal = res.value.indicators.macd.value
       /\ res.value.indicators.macd.histogram = R(0)

\* C25 witness: a report whose MACD value is not 0.
C25_Witness ==
  /\ op = "calculateTechnicalIndicators"
  /\ res.kind = "value"
  /\ res.value.indicators.macd.value # R(0)
  /\ res.value.indicators.macd.signal = res.value.indicators.macd.value

\* C25 also reaches a calculateMACD result whose MACD line is not 0.
C25_WitnessMACD ==
  /\ op = "calculateMACD"
  /\ res.kind = "value"
  /\ res.value.macdLine # R(0)
  /\ res.value.histogram = R(0)

\* C27: calculateTechnicalIndicators returns null exactly when the input is
\* absent or empty, and for every non-empty series, from 1 candle upward,
\* returns a populated report without raising a fault.
C27_ReportForEveryNonEmptySeries ==
  op = "calculateTechnicalIndicators" =>
    /\ res = Null <=> (dataAbsent \/ Len(data) = 0)
    /\ (~dataAbsent /\ Len(data) >= 1) => res.kind = "value"

\* The sum of (close - middle)^2 over the candles lo..Len(d) of d.
C26_SquaredDeviations(d, middle, lo) ==
  RSum([i \in 1..(Len(d) - lo + 1) |->
          RMul(RSub(R(d[lo + i - 1].close), middle),
               RSub(R(d[lo + i - 1].close), middle))])

\* stdDev is the non-negative root of a number that, times period, is the
\* sum of (close - middle)^2 over every candle of d; and middle is the SMA
\* of the last `period` closes when there are that many.
C26_DeviationOf(d, period, bands) ==
  /\ ~bands.stdDev.nan
  /\ bands.stdDev.a = R(0)
  /\ bands.stdDev.b = R(1)
  /\ RMul(bands.stdDev.r, R(period)) = C26_SquaredDeviations(d, bands.middle, 1)
  /\ Len(d) >= period =>
       bands.middle = Rat(ISum(closes(slice(d, -period))), period)

C28_SummaryRSIIsFifty ==
  (op = "getTechnicalAnalysisSummary" /\ ~dataAbsent
   /\ Len(data) >= SummaryMinCandles) =>
    /\ res.value.indicators.rsi = R(50)
    /\ res.value.marketCondition = "Neutral"
    /\ \A i \in 1..Len(res.value.signals) :
         res.value.signals[i] \notin {"RSI Oversold - Potential Buy",
                                      "RSI Overbought - Potential Sell"}

\* C28 witness: a report of a series whose last closes only rose, and whose
\* stochastic is above 80.
C28_Witness ==
  /\ op = "getTechnicalAnalysisSummary"
  /\ Len(data) >= SummaryMinCandles
  /\ data[Len(data)].close > data[Len(data) - 1].close
  /\ data[Len(data) - 1].close >= data[Len(data) - 2].close
  /\ RGt(res.value.indicators.stochastic.k, R(80))
  /\ res.value.indicators.rsi = R(50)
  /\ res.value.marketCondition = "Neutral"

\* C29: the trend of getTechnicalAnalysisSummary is never 'Bullish' or
\* 'Bearish': whatever the close and the two averages are, it is
\* 'Strong Bullish', 'Strong Bearish' or 'Neutral'.
C29_NoWeakTrend ==
  op = "determineTrend" =>
    res.value \in {"Strong Bullish", "Strong Bearish", "Neutral"}

\* C29 witness: the tests of the 'Bearish' branch hold with equal values,
\* and the trend is 'Strong Bearish'.
C29_Witness ==
  /\ op = "determineTrend"
  /\ arg[1] = arg[2]
  /\ arg[2] = arg[3]
  /\ res.value = "Strong Bearish"

\* C29 also reaches the tests of the 'Bullish' branch, classified
\* 'Strong Bullish'.
C29_WitnessBullish ==
  /\ op = "determineTrend"
  /\ arg[1] > arg[2]
  /\ arg[2] > arg[3]
  /\ arg # <<110, 100, 90>>
  /\ res.value = "Strong Bullish"

\* C29 holds of the reports themselves: the trend of every summary.
C29_NoWeakTrendInReports ==
  (op = "getTechnicalAnalysisSummary" /\ ~dataAbsent
   /\ Len(data) >= SummaryMinCandles) =>
    res.value.trend \in {"Strong Bullish", "Strong Bearish", "Neutral"}

\* The four fields that keep the results of the last analyses.
C30_LastResults ==
  <<lastSentiment, lastConfidence, lastSupportLevels, lastResistanceLevels>>

\* C30: a call made before initialize() has completed, or with fewer than
\* the minimum of candles (10 for predictNextMove and analyzeSentiment, 20
\* for findKeyLevels), returns its neutral default and leaves lastSentiment,
\* lastConfidence, lastSupportLevels and lastResistanceLevels unchanged; and
\* initialize() ends with the instance initialized whether or not building
\* the model threw.
C30_GatedCallsReturnDefaults ==
  [][/\ (op' = "predictNextMove" /\ (~isInitialized \/ Len(data) < 10)) =>
          /\ res' = Ok([expectedMove |-> [from |-> R(0), towards |-> R(0)],
                        confidence |-> SurdOf(R(0))])
          /\ UNCHANGED C30_LastResults
     /\ (op' = "analyzeSentiment" /\ (~isInitialized \/ Len(data) < 10)) =>
          /\ res' = Ok([overall |-> "neutral", volume |-> "neutral",
                        price |-> "neutral"])
          /\ UNCHANGED C30_LastResults
     /\ (op' = "findKeyLevels" /\ (~isInitialized \/ Len(data) < 20)) =>
          /\ res' = Ok([support |-> <<>>, resistance |-> <<>>])
          /\ UNCHANGED C30_LastResults
     /\ op' = "initialize" => isInitialized']_vars

\* C30 witness: an initialized instance that holds results of earlier
\* analyses returns the neutral sentiment for 9 candles and keeps them.
C30_Witness ==
  /\ isInitialized
  /\ op = "analyzeSentiment"
  /\ Len(data) = 9
  /\ res.value.overall = "neutral"
  /\ lastSentiment # "neutral"
  /\ lastConfidence # SurdOf(R(0))
  /\ lastSupportLevels # <<>>

\* C30 also reaches a gated prediction of an instance that holds results.
C30_WitnessPrediction ==
  /\ isInitialized
  /\ op = "predictNextMove"
  /\ Len(data) = 9
  /\ res.value.confidence = SurdOf(R(0))
  /\ lastConfidence # SurdOf(R(0))

\* C30 also reaches initialize() after building the model threw.
C30_WitnessThrown ==
  /\ op = "initialize"
  /\ arg.thrown
  /\ isInitialized

====
